---- MODULE Spec2Model ----
(***************************************************************************)
(* State-machine model of the message pipeline of the vk.com libpurple     *)
(* plugin: MessageReceiver (vk-message-recv, and the older receiver kept   *)
(* in vk-buddy.cpp) and the message sender (vk-message-send).              *)
(*                                                                         *)
(* Every action is one callback of the single-threaded event loop, run to  *)
(* completion.  Strings are sequences of tokens; an API response is a      *)
(* record drawn from a small catalogue of items.                           *)
(***************************************************************************)
EXTENDS Integers, Sequences, FiniteSets, TLC

\* Most items (well-formed or not) the server returns during one receiver run.
MaxMsgs == 3

\* Most characters of an outgoing text.
MaxTextLen == 3

\* Most URL-encoded bytes of text one messages.send call carries.
MaxUrlencoded == 4

\* Most CAPTCHA challenges the server asks for during one send.
MaxCaptcha == 2

\* Most thumbnail downloads that fail during one receiver run.
MaxThumbFailures == 1

\* Most <img> tags in one outgoing message.
MaxImgs == 2

\* Most users the server knows.
MaxUids == 2

\* Most attachments of the message whose rendering is looked at.
MaxAtts == 2

\* Most items the server sends before it answers with an empty list, in the
\* runs whose termination is looked at.
MaxFairItems == 2

\* Most calls of add_new_conv_id and remove_conv_id looked at.
MaxChatOps == 4

VARIABLES
    rstate,       \* "none" | "created" | "running" | "deleted": lifetime of the MessageReceiver
    mode,         \* "none" | "unread" | "ids" | "legacy": which entry point started it
    m_messages,   \* MessageReceiver::m_messages
    m_received_cb,\* whether m_received_cb / m_finished_cb is non-null
    inflight,     \* requests whose completion callback has not run yet
    trace,        \* calls made to the API, the HTTP layer and the host, in order
    lastResp,     \* the result handed to the callback that ran last (NoResult if none was)
    pages,        \* the item lists of the well-formed results received, in order
    failed,       \* the requests that completed with an error
    imgstore,     \* ids handed out by purple_imgstore_add_with_id
    sender,       \* "none" | "new" | "legacy": which sender built sendmsg
    images,       \* the UploadImgstoreImages shared by the upload callbacks of one send
    sendmsg,      \* the SendMessage shared by the callbacks of one send
    sstate,       \* "none" | "created" | "sending" | "captcha" | "sent" | "error"
    captcha,      \* the CAPTCHA challenges the user has not answered yet
    lastReply,    \* the value handed to the sender's callback that ran last
    sent_msg_ids, \* VkConnData::sent_msg_ids
    conv_open,    \* whether find_conv_for_id finds a conversation with the recipient
    user_infos,   \* VkConnData::user_infos: uid -> VkUserInfo
    friend_uids,  \* VkConnData::friend_uids
    blist,        \* the uids of the buddies in the host buddy list of the account
    friends_only, \* the account setting only_friends_in_blist
    convs,        \* the uids have_conversation_with is true for
    answers,      \* what the API answered to the buddy list's calls, in order
    custom_alias, \* the uids of the buddies whose blist node has "custom-alias" set
    chat_conv_ids \* the <<conversation id, chat id>> pairs of the open chat conversations

\* The variables only the receiver writes, those only the sender writes, and
\* those of the buddy list.
recvVars == <<rstate, mode, m_messages, m_received_cb, lastResp, pages, failed, imgstore>>

sendVars == <<sender, images, sendmsg, sstate, captcha, lastReply, sent_msg_ids, conv_open>>

buddyVars == <<user_infos, friend_uids, blist, friends_only, convs, answers, custom_alias>>

chatVars == <<chat_conv_ids>>

vars == <<rstate, mode, m_messages, m_received_cb, inflight, trace, lastResp,
          pages, failed, imgstore, sender, images, sendmsg, sstate, captcha,
          lastReply, sent_msg_ids, conv_open, user_infos, friend_uids, blist,
          friends_only, convs, answers, custom_alias, chat_conv_ids>>

----------------------------------------------------------------------------
(* Strings as token sequences *)

Tok(k, n) == [k |-> k, n |-> n]

\* "<thumbnail-placeholder-%d>"
Placeholder(n) == Tok("ph", n)

\* "<img id=\"%d\">"
ImgTag(id) == Tok("img", id)

IsPlaceholder(tok) == tok.k = "ph"

\* str_replace(s, from, to): every occurrence of the token from becomes to.
str_replace(s, from, to) ==
    [i \in 1..Len(s) |-> IF s[i] = from THEN to ELSE s[i]]

\* An event of the trace: e names the call, a and b are its integer arguments,
\* x its string or id-list argument.
Ev(e, a, b, x) == [e |-> e, a |-> a, b |-> b, x |-> x]

SelectEv(tr, e) == SelectSeq(tr, LAMBDA ev : ev.e = e)

----------------------------------------------------------------------------
(* API data *)

\* One element of an item's "attachments" array.
\*   type     the "type" string, "" when the field is missing
\*   obj      whether the object named by type is present
\*   ok       whether the fields the renderer requires are all present
\*   key      whether "access_key" is present (photo)
\*   sizes    which of photo_2560, photo_1280, photo_807 are present (photo)
\*   txt      whether the photo's "text" is non-empty
Attachment(type, obj, ok, key, sizes, txt) ==
    [type |-> type, obj |-> obj, ok |-> ok, key |-> key, sizes |-> sizes, txt |-> txt]

PhotoAtt == Attachment("photo", TRUE, TRUE, FALSE, {}, FALSE)
VideoAtt == Attachment("video", TRUE, TRUE, FALSE, {}, TRUE)
AudioAtt == Attachment("audio", TRUE, TRUE, FALSE, {}, TRUE)

\* One element of the "items" array of messages.get / messages.getById.
\*   ok    whether user_id, date, body and id are all present with the right type
Item(ok, uid, mid, date, body, atts) ==
    [ok |-> ok, uid |-> uid, mid |-> mid, date |-> date, body |-> body, atts |-> atts]

\* The items the modelled server may put in a page; the same item may be
\* returned again by a later page.
ItemCatalogue ==
    { Item(FALSE, 7, 4, 1, <<>>, <<>>),
      Item(TRUE, 7, 1, 2, <<Tok("body", 0)>>, <<>>),
      Item(TRUE, 8, 2, 1, <<>>, <<VideoAtt, AudioAtt, PhotoAtt>>) }

\* Values of the "count" field the server may send.
CountValues == {0, 9}

SeqsUpTo(S, n) == UNION { [1..k -> S] : k \in 0..n }

\* A result handed to a success callback: "count" and "items" may be missing.
Result(hasCount, count, hasItems, items) ==
    [hasCount |-> hasCount, count |-> count, hasItems |-> hasItems, items |-> items]

\* The results the server may answer with when at most n more items may be sent.
Results(n) ==
    { Result(TRUE, c, TRUE, its) : c \in CountValues, its \in SeqsUpTo(ItemCatalogue, n) }
    \cup { Result(FALSE, 0, TRUE, its) : its \in SeqsUpTo(ItemCatalogue, n) }
    \cup { Result(TRUE, 9, FALSE, <<>>) }

----------------------------------------------------------------------------
(* MessageReceiver: pure parts *)

ReceivedMessage(uid, mid, text, timestamp, thumbnail_urls) ==
    [uid |-> uid, mid |-> mid, text |-> text, timestamp |-> timestamp,
     thumbnail_urls |-> thumbnail_urls]

\* photo_url preferring the smaller sizes of a private photo.
photo_url_smallest(v) ==
    IF v.key
    THEN IF 807 \in v.sizes THEN 807
         ELSE IF 1280 \in v.sizes THEN 1280
         ELSE IF 2560 \in v.sizes THEN 2560
         ELSE 604
    ELSE 0

\* The URL a photo attachment links to: 0 stands for the photo page
\* http://vk.com/photo<owner>_<id>, 2560/1280/807/604 for the photo_N field.
photo_url(v) ==
    IF v.key
    THEN IF 2560 \in v.sizes THEN 2560
         ELSE IF 1280 \in v.sizes THEN 1280
         ELSE IF 807 \in v.sizes THEN 807
         ELSE 604
    ELSE 0

\* The loop body numbering the placeholder by the attachment's type instead
\* of by the thumbnails queued so far.
render_attachment_by_type(v, message) ==
    IF v.type \in { "photo", "video" } /\ v.ok
    THEN [message EXCEPT
            !.text = @ \o << Tok(IF v.type = "video" THEN "a_video"
                                 ELSE IF v.txt THEN "a_text" ELSE "a_url",
                                 IF v.type = "video" THEN 0 ELSE photo_url(v)),
                             Tok("br", 0),
                             Placeholder(IF v.type = "video" THEN 0 ELSE 1) >>,
            !.thumbnail_urls = Append(@, IF v.type = "video" THEN 320 ELSE 604)]
    ELSE IF v.type = "audio" /\ v.ok THEN [message EXCEPT !.text = Append(@, Tok("a_audio", 0))]
    ELSE IF v.type = "doc" /\ v.ok THEN [message EXCEPT !.text = Append(@, Tok("a_doc", 0))]
    ELSE IF v.type \in { "photo", "video", "audio", "doc" } THEN message
    ELSE [message EXCEPT !.text = Append(@, Tok("unknown", 0))]

\* The body of the loop of process_attachments for one attachment, after the
\* "<br>" separator was appended.
render_attachment(v, message) ==
    IF v.type = "photo"
    THEN IF ~v.ok THEN message
         ELSE [message EXCEPT
                 !.text = @ \o << Tok(IF v.txt THEN "a_text" ELSE "a_url", photo_url(v)),
                                  Tok("br", 0),
                                  Placeholder(Len(message.thumbnail_urls)) >>,
                 !.thumbnail_urls = Append(@, 604)]
    ELSE IF v.type = "video"
    THEN IF ~v.ok THEN message
         ELSE [message EXCEPT
                 !.text = @ \o << Tok("a_video", 0), Tok("br", 0),
                                  Placeholder(Len(message.thumbnail_urls)) >>,
                 !.thumbnail_urls = Append(@, 320)]
    ELSE IF v.type = "audio"
    THEN IF ~v.ok THEN message
         ELSE [message EXCEPT !.text = Append(@, Tok("a_audio", 0))]
    ELSE IF v.type = "doc"
    THEN IF ~v.ok THEN message
         ELSE [message EXCEPT !.text = Append(@, Tok("a_doc", 0))]
    ELSE [message EXCEPT !.text = Append(@, Tok("unknown", 0))]

\* process_attachments leaving the loop at an attachment of a type it does
\* not know, after the marker.
RECURSIVE process_attachments_stop(_, _)
process_attachments_stop(items, message) ==
    IF items = <<>> THEN message
    ELSE LET v == Head(items) IN
         IF v.type = "" \/ ~v.obj THEN message
         ELSE LET sep == IF message.text # <<>>
                         THEN [message EXCEPT !.text = Append(@, Tok("br", 0))]
                         ELSE message
              IN IF v.type \in { "photo", "video", "audio", "doc" }
                 THEN process_attachments_stop(Tail(items), render_attachment(v, sep))
                 ELSE render_attachment(v, sep)

RECURSIVE process_attachments(_, _)
process_attachments(items, message) ==
    IF items = <<>> THEN message
    ELSE LET v == Head(items) IN
         IF v.type = "" \/ ~v.obj THEN message
         ELSE LET sep == IF message.text # <<>>
                         THEN [message EXCEPT !.text = Append(@, Tok("br", 0))]
                         ELSE message
              IN process_attachments(Tail(items), render_attachment(v, sep))

\* The item loop leaving at the first malformed item instead of skipping it.
RECURSIVE process_items_abort(_, _)
process_items_abort(items, messages) ==
    IF items = <<>> THEN messages
    ELSE LET v == Head(items) IN
         IF ~v.ok THEN messages
         ELSE process_items_abort(Tail(items),
                Append(messages,
                       process_attachments(v.atts,
                           ReceivedMessage(v.uid, v.mid, v.body, v.date, <<>>))))

\* The loop of process_result over the items of a well-formed result.
RECURSIVE process_items(_, _)
process_items(items, messages) ==
    IF items = <<>> THEN messages
    ELSE LET v == Head(items) IN
         IF ~v.ok THEN process_items(Tail(items), messages)
         ELSE process_items(Tail(items),
                Append(messages,
                       process_attachments(v.atts,
                           ReceivedMessage(v.uid, v.mid, v.body, v.date, <<>>))))

\* process_result trusting the "count" field instead of the size of "items".
process_result_count(result, messages) ==
    IF ~result.hasCount \/ ~result.hasItems
    THEN [item_count |-> 0, messages |-> messages]
    ELSE [item_count |-> result.count,
          messages |-> process_items(result.items, messages)]

\* process_result: the returned item count and the new m_messages.
process_result(result, messages) ==
    IF ~result.hasCount \/ ~result.hasItems
    THEN [item_count |-> 0, messages |-> messages]
    ELSE [item_count |-> Len(result.items),
          messages |-> process_items(result.items, messages)]

\* download_thumbnail finishing when a message has no thumbnail left instead
\* of moving on to the next message.
download_thumbnail_no_advance(messages, message, thumbnail) ==
    IF message >= Len(messages) THEN <<>>
    ELSE IF thumbnail >= Len(messages[message + 1].thumbnail_urls)
         THEN <<>>
         ELSE <<message, thumbnail>>

\* download_thumbnail(message, thumbnail) up to the point where it either
\* calls finish() (the result is <<>>) or issues http_get for <<message, thumbnail>>.
RECURSIVE download_thumbnail(_, _, _)
download_thumbnail(messages, message, thumbnail) ==
    IF message >= Len(messages) THEN <<>>
    ELSE IF thumbnail >= Len(messages[message + 1].thumbnail_urls)
         THEN download_thumbnail(messages, message + 1, 0)
         ELSE <<message, thumbnail>>

\* finish() without the sort: the messages stay in arrival order.
std_sort_missing(messages) == { messages }

\* The orders std::sort may leave the messages in: every permutation that is
\* ascending in timestamp (the order of equal timestamps is unspecified).
std_sort(messages) ==
    LET n == Len(messages)
        perms == { p \in [1..n -> 1..n] : \A i, j \in 1..n : i # j => p[i] # p[j] }
    IN  { [i \in 1..n |-> messages[p[i]]] : p \in
            { q \in perms : \A i \in 1..n : \A j \in 1..n :
                  i < j => messages[q[i]].timestamp <= messages[q[j]].timestamp } }

\* mark_message_as_read without the check for an empty id list.
mark_message_as_read_unchecked(message_ids) ==
    << Ev("messages.markAsRead", 0, 0, message_ids) >>

\* mark_message_as_read: the requests it issues.
mark_message_as_read(message_ids) ==
    IF message_ids = <<>> THEN <<>>
    ELSE << Ev("messages.markAsRead", 0, 0, message_ids) >>

\* mark_message_as_read of the older receiver: no check for an empty list.
legacy_mark_message_as_read(message_ids) ==
    << Ev("messages.markAsRead", 0, 0, message_ids) >>

\* finish() calling m_received_cb before it delivers the messages.
finish_calls_cb_first(sorted, legacy, cb) ==
    LET message_ids == [i \in 1..Len(sorted) |-> sorted[i].mid] IN
    (IF cb THEN << Ev("received_cb", 0, 0, <<>>) >> ELSE <<>>)
    \o [i \in 1..Len(sorted) |->
        Ev("serv_got_im", sorted[i].mid, sorted[i].timestamp, sorted[i].text)]
    \o (IF legacy THEN legacy_mark_message_as_read(message_ids)
                  ELSE mark_message_as_read(message_ids))
    \o << Ev("delete", 0, 0, <<>>) >>

\* The calls finish() makes on the already sorted messages, in order.
finish_calls(sorted, legacy, cb) ==
    LET message_ids == [i \in 1..Len(sorted) |-> sorted[i].mid] IN
    [i \in 1..Len(sorted) |->
        Ev("serv_got_im", sorted[i].mid, sorted[i].timestamp, sorted[i].text)]
    \o (IF legacy THEN legacy_mark_message_as_read(message_ids)
                  ELSE mark_message_as_read(message_ids))
    \o (IF cb THEN << Ev("received_cb", 0, 0, <<>>) >> ELSE <<>>)
    \o << Ev("delete", 0, 0, <<>>) >>

----------------------------------------------------------------------------
(* MessageReceiver: requests and callbacks *)

\* A request in flight: a call of vk_call_api or http_get whose callback is pending.
Req(kind, a, b) == [kind |-> kind, a |-> a, b |-> b]

NoResult == Result(FALSE, 0, FALSE, <<>>)

\* pages after a success callback was handed result: a result lacking "count"
\* or "items" is not looked into.
accepted(pgs, result) ==
    IF result.hasCount /\ result.hasItems THEN Append(pgs, result.items) ELSE pgs

\* The id lists receive_messages is called with.
IdLists == { <<3>>, <<1, 2>> }

\* finish() deleting the receiver at once when no message was collected.
finish_quiet(messages, tr, rest) ==
    \E sorted \in std_sort(messages) :
        /\ m_messages' = sorted
        /\ trace' = tr \o (IF messages = <<>>
                           THEN << Ev("delete", 0, 0, <<>>) >>
                           ELSE finish_calls(sorted, mode = "legacy", m_received_cb))
        /\ inflight' = rest
        /\ rstate' = "deleted"

\* finish(): sort, deliver, mark as read, call back, delete this.  rest holds
\* the requests still in flight when it runs.
finish(messages, tr, rest) ==
    \E sorted \in std_sort(messages) :
        /\ m_messages' = sorted
        /\ trace' = tr \o finish_calls(sorted, mode = "legacy", m_received_cb)
        /\ inflight' = rest
        /\ rstate' = "deleted"

\* download_thumbnail going on to finish() after it has issued http_get.
call_download_thumbnail_no_return(messages, message, thumbnail, tr, rest) ==
    LET nxt == download_thumbnail(messages, message, thumbnail) IN
    IF nxt = <<>>
    THEN finish(messages, tr, rest)
    ELSE finish(messages, Append(tr, Ev("http_get", nxt[1], nxt[2], <<>>)),
                rest \cup { Req("http_get", nxt[1], nxt[2]) })

\* download_thumbnail(message, thumbnail) called from a callback.
call_download_thumbnail(messages, message, thumbnail, tr, rest) ==
    LET nxt == download_thumbnail(messages, message, thumbnail) IN
    IF nxt = <<>>
    THEN finish(messages, tr, rest)
    ELSE /\ m_messages' = messages
         /\ trace' = Append(tr, Ev("http_get", nxt[1], nxt[2], <<>>))
         /\ inflight' = rest \cup { Req("http_get", nxt[1], nxt[2]) }
         /\ rstate' = rstate

\* run_unread(offset) / receive(offset): issue messages.get.
call_messages_get(messages, offset, tr, rest) ==
    /\ m_messages' = messages
    /\ trace' = Append(tr, Ev("messages.get", offset, 0, <<>>))
    /\ inflight' = rest \cup { Req("messages.get", offset, 0) }
    /\ rstate' = rstate

\* receive_unread_messages: create the receiver and run_unread().
RunUnread ==
    /\ rstate = "created"
    /\ mode' = "unread"
    /\ rstate' = "running"
    /\ trace' = Append(trace, Ev("messages.get", 0, 0, <<>>))
    /\ inflight' = inflight \cup { Req("messages.get", 0, 0) }
    /\ UNCHANGED <<m_messages, m_received_cb, lastResp, pages, failed, imgstore>>
    /\ UNCHANGED <<sendVars, buddyVars, chatVars>>

\* receive_messages: create the receiver and run(message_ids).
Run ==
    /\ rstate = "created"
    /\ \E message_ids \in IdLists :
          trace' = Append(trace, Ev("messages.getById", 0, 0, message_ids))
    /\ mode' = "ids"
    /\ rstate' = "running"
    /\ inflight' = inflight \cup { Req("messages.getById", 0, 0) }
    /\ UNCHANGED <<m_messages, m_received_cb, lastResp, pages, failed, imgstore>>
    /\ UNCHANGED <<sendVars, buddyVars, chatVars>>

\* The success callback of run_unread(offset) without the return after
\* download_thumbnail(0, 0): a run without thumbnails is finished and
\* run_unread(offset + 0) is called all the same.
run_unread_success_no_return(req, result) ==
    LET r == process_result(result, m_messages)
        rest == inflight \ {req}
    IN  IF r.item_count = 0 /\ download_thumbnail(r.messages, 0, 0) = <<>>
        THEN \E sorted \in std_sort(r.messages) :
                /\ m_messages' = sorted
                /\ trace' = (trace \o finish_calls(sorted, FALSE, m_received_cb))
                             \o << Ev("messages.get", req.a, 0, <<>>) >>
                /\ inflight' = rest \cup { Req("messages.get", req.a, 0) }
                /\ rstate' = "deleted"
        ELSE IF r.item_count = 0
        THEN call_download_thumbnail(r.messages, 0, 0, trace, rest)
        ELSE call_messages_get(r.messages, req.a + r.item_count, trace, rest)

\* The success callback of run_unread(offset).
run_unread_success(req, result) ==
    LET r == process_result(result, m_messages)
        rest == inflight \ {req}
    IN  IF r.item_count = 0
        THEN call_download_thumbnail(r.messages, 0, 0, trace, rest)
        ELSE call_messages_get(r.messages, req.a + r.item_count, trace, rest)

\* The success callback of messages.get working on the well-formed items
\* only, so that the next offset leaves out the items skipped.
GetSuccessWellFormed ==
    /\ mode = "unread"
    /\ \E req \in inflight :
        /\ req.kind = "messages.get"
        /\ \E result \in Results(MaxMsgs - req.a) :
            /\ run_unread_success(req, [result EXCEPT
                   !.items = SelectSeq(@, LAMBDA v : v.ok)])
            /\ lastResp' = result
            /\ pages' = accepted(pages, result)
    /\ UNCHANGED <<mode, m_received_cb, failed, imgstore>>
    /\ UNCHANGED <<sendVars, buddyVars, chatVars>>

GetSuccess ==
    /\ mode = "unread"
    /\ \E req \in inflight :
        /\ req.kind = "messages.get"
        /\ \E result \in Results(MaxMsgs - req.a) :
            /\ run_unread_success(req, result)
            /\ lastResp' = result
            /\ pages' = accepted(pages, result)
    /\ UNCHANGED <<mode, m_received_cb, failed, imgstore>>
    /\ UNCHANGED <<sendVars, buddyVars, chatVars>>

\* An error callback that issues the failed request again.
run_error_retry(req) ==
    /\ m_messages' = m_messages
    /\ trace' = Append(trace, Ev(req.kind, req.a, 0, <<>>))
    /\ inflight' = (inflight \ {req}) \cup {req}
    /\ rstate' = rstate

\* The error callback of run_unread(offset) and of run(message_ids).
run_error(req) ==
    finish(m_messages, trace, inflight \ {req})

GetError ==
    /\ mode = "unread"
    /\ \E req \in inflight :
        /\ req.kind = "messages.get"
        /\ run_error(req)
        /\ failed' = failed \cup {req}
    /\ lastResp' = NoResult
    /\ UNCHANGED <<mode, m_received_cb, pages, imgstore>>
    /\ UNCHANGED <<sendVars, buddyVars, chatVars>>

\* The success callback of run(message_ids).
run_success(req, result) ==
    LET r == process_result(result, m_messages) IN
    call_download_thumbnail(r.messages, 0, 0, trace, inflight \ {req})

GetByIdSuccess ==
    /\ \E req \in inflight :
        /\ req.kind = "messages.getById"
        /\ \E result \in Results(MaxMsgs) :
            /\ run_success(req, result)
            /\ lastResp' = result
            /\ pages' = accepted(pages, result)
    /\ UNCHANGED <<mode, m_received_cb, failed, imgstore>>
    /\ UNCHANGED <<sendVars, buddyVars, chatVars>>

GetByIdError ==
    /\ \E req \in inflight :
        /\ req.kind = "messages.getById"
        /\ run_error(req)
        /\ failed' = failed \cup {req}
    /\ lastResp' = NoResult
    /\ UNCHANGED <<mode, m_received_cb, pages, imgstore>>
    /\ UNCHANGED <<sendVars, buddyVars, chatVars>>

\* The http_get callback storing the image and returning without going on to
\* the next thumbnail.
thumbnail_success_stop(req) ==
    LET img_id == imgstore + 1
        messages == [m_messages EXCEPT ![req.a + 1].text =
                        str_replace(@, Placeholder(req.b), ImgTag(img_id))]
    IN  /\ imgstore' = img_id
        /\ m_messages' = messages
        /\ trace' = trace
        /\ inflight' = inflight \ {req}
        /\ rstate' = rstate

\* The http_get callback of download_thumbnail(message, thumbnail), response
\* successful: store the image, substitute the placeholder, go on.
thumbnail_success(req) ==
    LET img_id == imgstore + 1
        messages == [m_messages EXCEPT ![req.a + 1].text =
                        str_replace(@, Placeholder(req.b), ImgTag(img_id))]
    IN  /\ imgstore' = img_id
        /\ call_download_thumbnail(messages, req.a, req.b + 1, trace, inflight \ {req})

ThumbnailSuccess ==
    /\ \E req \in inflight :
        /\ req.kind = "http_get"
        /\ thumbnail_success(req)
    /\ lastResp' = NoResult
    /\ UNCHANGED <<mode, m_received_cb, pages, failed>>
    /\ UNCHANGED <<sendVars, buddyVars, chatVars>>

\* The http_get callback giving up on the first failed download.
thumbnail_failure_abort(req) ==
    finish(m_messages, trace, inflight \ {req})

\* The http_get callback of download_thumbnail, response not successful.
thumbnail_failure(req) ==
    call_download_thumbnail(m_messages, req.a, req.b + 1, trace, inflight \ {req})

ThumbnailFailure ==
    /\ Cardinality({ req \in failed : req.kind = "http_get" }) < MaxThumbFailures
    /\ \E req \in inflight :
        /\ req.kind = "http_get"
        /\ thumbnail_failure(req)
        /\ failed' = failed \cup {req}
    /\ lastResp' = NoResult
    /\ UNCHANGED <<mode, m_received_cb, pages, imgstore>>
    /\ UNCHANGED <<sendVars, buddyVars, chatVars>>

----------------------------------------------------------------------------
(* The older MessageReceiver (receive_unread_messages of vk-buddy.cpp) *)

\* The item loop of receive(): the first malformed item ends the loop and the run.
RECURSIVE legacy_process_items(_, _)
legacy_process_items(items, messages) ==
    IF items = <<>> THEN [aborted |-> FALSE, messages |-> messages]
    ELSE LET v == Head(items) IN
         IF ~v.ok THEN [aborted |-> TRUE, messages |-> messages]
         ELSE legacy_process_items(Tail(items),
                Append(messages, ReceivedMessage(v.uid, v.mid, v.body, v.date, <<>>)))

\* receive_unread_messages (older): create the receiver and run().
LegacyRun ==
    /\ rstate = "created"
    /\ mode' = "legacy"
    /\ rstate' = "running"
    /\ trace' = Append(trace, Ev("messages.get", 0, 0, <<>>))
    /\ inflight' = inflight \cup { Req("messages.get", 0, 0) }
    /\ UNCHANGED <<m_messages, m_received_cb, lastResp, pages, failed, imgstore>>
    /\ UNCHANGED <<sendVars, buddyVars, chatVars>>

\* The success callback of receive(offset).
receive_success(req, result) ==
    LET rest == inflight \ {req} IN
    IF ~result.hasCount \/ ~result.hasItems
    THEN finish(m_messages, trace, rest)
    ELSE IF Len(result.items) = 0
    THEN finish(m_messages, trace, rest)
    ELSE LET r == legacy_process_items(result.items, m_messages) IN
         IF r.aborted
         THEN finish(r.messages, trace, rest)
         ELSE call_messages_get(r.messages, req.a + Len(result.items), trace, rest)

LegacyGetSuccess ==
    /\ mode = "legacy"
    /\ \E req \in inflight :
        /\ req.kind = "messages.get"
        /\ \E result \in Results(MaxMsgs - req.a) :
            /\ receive_success(req, result)
            /\ lastResp' = result
            /\ pages' = accepted(pages, result)
    /\ UNCHANGED <<mode, m_received_cb, failed, imgstore>>
    /\ UNCHANGED <<sendVars, buddyVars, chatVars>>

\* The error callback of receive(offset).
receive_error(req) ==
    finish(m_messages, trace, inflight \ {req})

LegacyGetError ==
    /\ mode = "legacy"
    /\ \E req \in inflight :
        /\ req.kind = "messages.get"
        /\ receive_error(req)
        /\ failed' = failed \cup {req}
    /\ lastResp' = NoResult
    /\ UNCHANGED <<mode, m_received_cb, pages, imgstore>>
    /\ UNCHANGED <<sendVars, buddyVars, chatVars>>

----------------------------------------------------------------------------
(* The sender's data *)

\* struct SendMessage; success_cb and error_cb tell whether the callback is set.
SendMessage(user_id, chat_id, text, attachments, success_cb, error_cb) ==
    [user_id |-> user_id, chat_id |-> chat_id, text |-> text, attachments |-> attachments,
     success_cb |-> success_cb, error_cb |-> error_cb]

NoMessage == SendMessage(0, 0, <<>>, <<>>, FALSE, FALSE)

\* struct UploadImgstoreImages.
UploadImgstoreImages(img_ids, attachments) ==
    [img_ids |-> img_ids, attachments |-> attachments]

NoImages == UploadImgstoreImages(<<>>, <<>>)

NoReply == [none |-> TRUE]

\* No buddy is known and no buddy operation has run.
BuddyIdle ==
    /\ user_infos = <<>>
    /\ friend_uids = {}
    /\ blist = {}
    /\ friends_only = FALSE
    /\ convs = {}
    /\ answers = <<>>
    /\ custom_alias = {}
    /\ chat_conv_ids = <<>>

----------------------------------------------------------------------------
(* The receiver as a state machine *)

\* MessageReceiver::create: nothing received, nothing requested.
RecvInit ==
    /\ rstate = "created"
    /\ mode = "none"
    /\ m_messages = <<>>
    /\ m_received_cb \in BOOLEAN
    /\ inflight = {}
    /\ trace = <<>>
    /\ lastResp = NoResult
    /\ pages = <<>>
    /\ failed = {}
    /\ imgstore = 0

RecvNext ==
    \/ RunUnread
    \/ Run
    \/ LegacyRun
    \/ GetSuccess
    \/ GetError
    \/ GetByIdSuccess
    \/ GetByIdError
    \/ ThumbnailSuccess
    \/ ThumbnailFailure
    \/ LegacyGetSuccess
    \/ LegacyGetError

\* No message is being sent.
SendIdle ==
    /\ sender = "none"
    /\ images = NoImages
    /\ sendmsg = NoMessage
    /\ sstate = "none"
    /\ captcha = {}
    /\ lastReply = NoReply
    /\ sent_msg_ids = {}
    /\ conv_open = FALSE

Init == RecvInit /\ SendIdle /\ BuddyIdle

Next == RecvNext

\* One run of a MessageReceiver.
Spec == Init /\ [][Next]_vars

----------------------------------------------------------------------------
(* Sending a message: send_message_internal, process_im_error, show_error *)

\* send_im_message(gc, user_id, ...) and send_im_attachment(gc, user_id, ...):
\* the <<user_id, chat_id>> given to the SendMessage.
send_im_message(user_id) == <<user_id, 0>>

\* send_chat_message filling in both recipient fields.
send_chat_message_both(chat_id) == <<chat_id, chat_id>>

\* send_chat_message(gc, chat_id, ...): the <<user_id, chat_id>> given to the
\* SendMessage.
send_chat_message(chat_id) == <<0, chat_id>>

\* The recipients used: a user and a chat, both called with a non-zero id.
Recipients == { send_im_message(5), send_chat_message(9) }

\* The attachment lists parse_vkcom_attachments finds in a text: a
\* comma-separated string is the sequence of its parts.
AttachmentStrings == { <<>>, << "photo1_2" >> }

\* A character of the text: c tells characters apart, w is the number of
\* bytes of its URL encoding.
Char(c, w) == [c |-> c, w |-> w]

\* The texts sent: up to MaxTextLen characters of one or three encoded bytes.
Texts ==
    UNION { { [i \in 1..n |-> Char(i, ws[i])] : ws \in [1..n -> {1, 3}] } : n \in 0..MaxTextLen }

RECURSIVE EncodedLen(_)
EncodedLen(text) == IF text = <<>> THEN 0 ELSE Head(text).w + EncodedLen(Tail(text))

\* max_urlencoded_prefix: the length of the longest prefix of text whose URL
\* encoding fits the limit.
max_urlencoded_prefix(text) ==
    CHOOSE k \in 0..Len(text) :
        /\ EncodedLen(SubSeq(text, 1, k)) <= MaxUrlencoded
        /\ \A j \in 0..Len(text) :
              EncodedLen(SubSeq(text, 1, j)) <= MaxUrlencoded => j <= k

\* The parameters of one messages.send call ("" stands for a parameter left out,
\* 0 for a recipient parameter left out).
SendParams(attachment, msg, user_id, chat_id, captcha_sid, captcha_key) ==
    [attachment |-> attachment, type |-> "1", message |-> msg, user_id |-> user_id,
     chat_id |-> chat_id, captcha_sid |-> captcha_sid, captcha_key |-> captcha_key]

\* A messages.send call in flight: what its two callbacks captured.
SendReq(text_len, captcha_sid, captcha_key) ==
    [kind |-> "messages.send", text_len |-> text_len,
     captcha_sid |-> captcha_sid, captcha_key |-> captcha_key]

\* An error handed to the error callback.
\*   object    whether it is a JSON object
\*   code      "" (no error_code), "VK_CAPTCHA_NEEDED" or "other"
\*   sid, img  captcha_sid and captcha_img, "" when missing
ApiError(object, code, sid, img) ==
    [object |-> object, code |-> code, sid |-> sid, img |-> img]

CaptchaSids == { "sid1", "sid2" }

\* The image URL the server sends along with a captcha_sid.
CaptchaImg(sid) == <<"img", sid>>

CaptchaErrors == { ApiError(TRUE, "VK_CAPTCHA_NEEDED", sid, CaptchaImg(sid)) : sid \in CaptchaSids }

OtherErrors ==
    { ApiError(FALSE, "", "", <<>>),
      ApiError(TRUE, "", "", <<>>),
      ApiError(TRUE, "other", "", <<>>),
      ApiError(TRUE, "VK_CAPTCHA_NEEDED", "", CaptchaImg("sid1")),
      ApiError(TRUE, "VK_CAPTCHA_NEEDED", "sid1", <<>>) }

\* The keys a user types to solve a challenge.
CaptchaKeys == { "key1" }

\* show_error: write to the conversation if one is open, call error_cb.
show_error_calls(msg) ==
    (IF conv_open THEN << Ev("purple_conversation_write", 0, 0, msg.text) >> ELSE <<>>)
    \o (IF msg.error_cb THEN << Ev("error_cb", 0, 0, <<>>) >> ELSE <<>>)

show_error(msg, tr, rest) ==
    /\ trace' = tr \o show_error_calls(msg)
    /\ inflight' = rest
    /\ sendmsg' = msg
    /\ sstate' = "error"
    /\ captcha' = captcha

\* send_message_internal(gc, message, captcha_sid, captcha_key).
send_message_internal(msg, captcha_sid, captcha_key, tr, rest) ==
    LET text_len == max_urlencoded_prefix(msg.text)
        params == SendParams(msg.attachments, SubSeq(msg.text, 1, text_len),
                             IF msg.user_id # 0 THEN msg.user_id ELSE 0,
                             IF msg.user_id # 0 THEN 0 ELSE msg.chat_id,
                             captcha_sid, captcha_key)
    IN  /\ trace' = Append(tr, Ev("messages.send", 0, 0, params))
        /\ inflight' = rest \cup { SendReq(text_len, captcha_sid, captcha_key) }
        /\ sendmsg' = msg
        /\ sstate' = "sending"

\* The upload callback of send_message / send_im_attachment: the first
\* send_message_internal(gc, message).
SendStart ==
    /\ sender = "new"
    /\ sstate = "created"
    /\ images.img_ids = <<>>
    /\ send_message_internal(sendmsg, "", "", trace, inflight)
    /\ UNCHANGED <<sender, images, captcha, lastReply, sent_msg_ids, conv_open>>
    /\ UNCHANGED <<recvVars, buddyVars, chatVars>>

\* The success callback sending the next part without erasing the part sent.
send_success_no_erase(req, v) ==
    LET rest == inflight \ {req} IN
    IF ~v.is_double
    THEN /\ show_error(sendmsg, trace, rest)
         /\ sent_msg_ids' = sent_msg_ids
    ELSE /\ sent_msg_ids' = sent_msg_ids \cup {v.msg_id}
         /\ captcha' = captcha
         /\ IF req.text_len = Len(sendmsg.text)
            THEN /\ trace' = trace \o (IF sendmsg.success_cb
                                       THEN << Ev("success_cb", 0, 0, <<>>) >> ELSE <<>>)
                 /\ inflight' = rest
                 /\ sendmsg' = sendmsg
                 /\ sstate' = "sent"
            ELSE send_message_internal(
                     [sendmsg EXCEPT !.text = SubSeq(@, req.text_len, Len(@))],
                     req.captcha_sid, req.captcha_key, trace, rest)

\* The success callback of messages.send, handed v.
send_success(req, v) ==
    LET rest == inflight \ {req} IN
    IF ~v.is_double
    THEN /\ show_error(sendmsg, trace, rest)
         /\ sent_msg_ids' = sent_msg_ids
    ELSE /\ sent_msg_ids' = sent_msg_ids \cup {v.msg_id}
         /\ captcha' = captcha
         /\ IF req.text_len = Len(sendmsg.text)
            THEN /\ trace' = trace \o (IF sendmsg.success_cb
                                       THEN << Ev("success_cb", 0, 0, <<>>) >> ELSE <<>>)
                 /\ inflight' = rest
                 /\ sendmsg' = sendmsg
                 /\ sstate' = "sent"
            ELSE send_message_internal(
                     [sendmsg EXCEPT !.text = SubSeq(@, req.text_len + 1, Len(@))],
                     req.captcha_sid, req.captcha_key, trace, rest)

SendSuccess ==
    /\ sender = "new"
    /\ \E req \in inflight :
        /\ req.kind = "messages.send"
        /\ \E v \in { [is_double |-> TRUE, msg_id |-> Cardinality(sent_msg_ids) + 1],
                      [is_double |-> FALSE, msg_id |-> 0] } :
            /\ send_success(req, v)
            /\ lastReply' = v
    /\ UNCHANGED <<sender, images, conv_open>>
    /\ UNCHANGED <<recvVars, buddyVars, chatVars>>

\* process_im_error sending the message again after an error it cannot handle.
process_im_error_retry(error, rest) ==
    IF error.code = "VK_CAPTCHA_NEEDED" /\ error.sid # "" /\ error.img # <<>>
    THEN /\ trace' = Append(trace, Ev("request_captcha", 0, 0, error.img))
         /\ captcha' = captcha \cup { [captcha_sid |-> error.sid] }
         /\ inflight' = rest
         /\ sendmsg' = sendmsg
         /\ sstate' = "captcha"
    ELSE /\ send_message_internal(sendmsg, "", "", trace, rest)
         /\ captcha' = captcha

\* process_im_error: a well-formed CAPTCHA error raises a challenge, any
\* other error is shown.
process_im_error(error, rest) ==
    IF ~error.object \/ error.code = ""
    THEN show_error(sendmsg, trace, rest)
    ELSE IF error.code # "VK_CAPTCHA_NEEDED"
    THEN show_error(sendmsg, trace, rest)
    ELSE IF error.sid = "" \/ error.img = <<>>
    THEN show_error(sendmsg, trace, rest)
    ELSE /\ trace' = Append(trace, Ev("request_captcha", 0, 0, error.img))
         /\ captcha' = captcha \cup { [captcha_sid |-> error.sid] }
         /\ inflight' = rest
         /\ sendmsg' = sendmsg
         /\ sstate' = "captcha"

\* The error callback of messages.send.
SendError ==
    /\ sender = "new"
    /\ \E req \in inflight :
        /\ req.kind = "messages.send"
        /\ \E error \in OtherErrors \cup
                 (IF Len(SelectEv(trace, "request_captcha")) < MaxCaptcha
                  THEN CaptchaErrors ELSE {}) :
            /\ process_im_error(error, inflight \ {req})
            /\ lastReply' = error
    /\ UNCHANGED <<sender, images, sent_msg_ids, conv_open>>
    /\ UNCHANGED <<recvVars, buddyVars, chatVars>>

\* The solved-challenge callback resubmitting without the captcha_sid.
captcha_solved_no_sid(c, captcha_key) ==
    /\ send_message_internal(sendmsg, "", captcha_key, trace, inflight)
    /\ captcha' = captcha \ {c}

\* The callback request_captcha calls with the key the user typed.
captcha_solved(c, captcha_key) ==
    /\ send_message_internal(sendmsg, c.captcha_sid, captcha_key, trace, inflight)
    /\ captcha' = captcha \ {c}

CaptchaSolved ==
    /\ sender = "new"
    /\ \E c \in captcha : \E captcha_key \in CaptchaKeys : captcha_solved(c, captcha_key)
    /\ lastReply' = NoReply
    /\ UNCHANGED <<sender, images, sent_msg_ids, conv_open>>
    /\ UNCHANGED <<recvVars, buddyVars, chatVars>>

\* The cancelled-challenge callback dropping the message without show_error.
captcha_cancelled_silent(c) ==
    /\ trace' = trace
    /\ captcha' = captcha \ {c}
    /\ sstate' = "error"
    /\ UNCHANGED <<sendmsg, inflight>>

\* The callback request_captcha calls when the challenge is cancelled.
captcha_cancelled(c) ==
    /\ trace' = trace \o show_error_calls(sendmsg)
    /\ captcha' = captcha \ {c}
    /\ sstate' = "error"
    /\ UNCHANGED <<sendmsg, inflight>>

CaptchaCancelled ==
    /\ sender = "new"
    /\ \E c \in captcha : captcha_cancelled(c)
    /\ lastReply' = NoReply
    /\ UNCHANGED <<sender, images, sent_msg_ids, conv_open>>
    /\ UNCHANGED <<recvVars, buddyVars, chatVars>>

----------------------------------------------------------------------------
(* Uploading the images of a message: remove_img_tags, upload_imgstore_images *)

\* The ids of the images in the image store.
ImgIds == 1..MaxImgs

\* The raw messages with images: one character and <img id="X"> tags in any
\* order, no image twice, at least one image.
RawTokens == { ImgTag(id) : id \in ImgIds } \cup { Char(1, 1) }

RawMessages ==
    { raw \in SeqsUpTo(RawTokens, MaxImgs + 1) :
        /\ \A i, j \in DOMAIN raw : raw[i] = raw[j] => i = j
        /\ \E i \in DOMAIN raw : raw[i] \in { ImgTag(id) : id \in ImgIds } }

IsImgTag(tok) == "k" \in DOMAIN tok

\* remove_img_tags: the ids of the <img> tags in the order they are matched,
\* and the message without the tags.
remove_img_tags(message) ==
    LET tags == SelectSeq(message, IsImgTag)
    IN  [clean_message |-> SelectSeq(message, LAMBDA tok : ~IsImgTag(tok)),
         img_ids |-> [i \in 1..Len(tags) |-> tags[i].n]]

\* The value photos.saveMessagesPhoto answers with: an array whose first
\* element has owner_id and id, or something else.  The server is taken to
\* give the photo of image img_id the id img_id.
UploadResults(img_id) ==
    { [ok |-> TRUE, owner_id |-> 1, id |-> img_id],
      [ok |-> FALSE, owner_id |-> 0, id |-> 0] }

\* str_format("photo%d_%d", owner_id, id)
PhotoName(owner_id, id) == <<"photo", owner_id, id>>

\* images->img_ids[images->img_ids.size() - offset - 1]
img_id_at(imgs, offset) == imgs.img_ids[Len(imgs.img_ids) - offset]

\* upload_imgstore_images_impl starting the upload of the next image along
\* with the one at offset.
upload_imgstore_images_impl_batch(imgs, offset, rest) ==
    LET img_id == img_id_at(imgs, offset)
        more == IF offset + 1 < Len(imgs.img_ids)
                THEN { Req("upload", img_id_at(imgs, offset + 1), offset + 1) }
                ELSE {}
    IN  /\ trace' = Append(trace, Ev("upload_photo_for_im", img_id, offset, <<>>))
        /\ inflight' = rest \cup { Req("upload", img_id, offset) } \cup more
        /\ images' = imgs
        /\ sendmsg' = sendmsg
        /\ sstate' = "uploading"
        /\ captcha' = captcha

\* upload_imgstore_images_impl(gc, images, uploaded_cb, error_cb, offset).
upload_imgstore_images_impl(imgs, offset, rest) ==
    LET img_id == img_id_at(imgs, offset) IN
    /\ trace' = Append(trace, Ev("upload_photo_for_im", img_id, offset, <<>>))
    /\ inflight' = rest \cup { Req("upload", img_id, offset) }
    /\ images' = imgs
    /\ sendmsg' = sendmsg
    /\ sstate' = "uploading"
    /\ captcha' = captcha

\* send_message with images in the message: upload_imgstore_images starts
\* the first upload.
UploadStart ==
    /\ sender = "new"
    /\ sstate = "created"
    /\ images.img_ids # <<>>
    /\ upload_imgstore_images_impl(images, 0, inflight)
    /\ UNCHANGED <<sender, lastReply, sent_msg_ids, conv_open>>
    /\ UNCHANGED <<recvVars, buddyVars, chatVars>>

\* The uploaded_cb of send_message: the attachments of the text, then those
\* of the images.
images_uploaded(img_attachments, imgs, rest) ==
    \E parsed \in AttachmentStrings :
        /\ send_message_internal([sendmsg EXCEPT !.attachments = parsed \o img_attachments],
                                 "", "", trace, rest)
        /\ images' = imgs
        /\ captcha' = captcha

\* The success callback of upload_photo_for_im leaving out an image whose
\* result it cannot read and going on with the rest.
upload_success_skip(req, v) ==
    LET rest == inflight \ {req}
        imgs == IF v.ok
                THEN [images EXCEPT !.attachments = Append(@, PhotoName(v.owner_id, v.id))]
                ELSE images
    IN  IF req.b = Len(images.img_ids) - 1
        THEN images_uploaded(imgs.attachments, imgs, rest)
        ELSE upload_imgstore_images_impl(imgs, req.b + 1, rest)

\* The success callback of upload_photo_for_im.
upload_success(req, v) ==
    LET rest == inflight \ {req} IN
    IF ~v.ok
    THEN /\ show_error(sendmsg, trace, rest)
         /\ images' = images
    ELSE LET imgs == [images EXCEPT !.attachments = Append(@, PhotoName(v.owner_id, v.id))]
         IN  IF req.b = Len(images.img_ids) - 1
             THEN images_uploaded(imgs.attachments, imgs, rest)
             ELSE upload_imgstore_images_impl(imgs, req.b + 1, rest)

UploadSuccess ==
    /\ sender = "new"
    /\ \E req \in inflight :
        /\ req.kind = "upload"
        /\ \E v \in UploadResults(req.a) :
            /\ upload_success(req, v)
            /\ lastReply' = v
    /\ UNCHANGED <<sender, sent_msg_ids, conv_open>>
    /\ UNCHANGED <<recvVars, buddyVars, chatVars>>

\* The error callback of upload_photo_for_im.
UploadError ==
    /\ sender = "new"
    /\ \E req \in inflight :
        /\ req.kind = "upload"
        /\ show_error(sendmsg, trace, inflight \ {req})
    /\ lastReply' = NoReply
    /\ UNCHANGED <<sender, images, sent_msg_ids, conv_open>>
    /\ UNCHANGED <<recvVars, buddyVars, chatVars>>

----------------------------------------------------------------------------
(* The older sender (send_im_message of vk-buddy.cpp) *)

\* struct SendMessage of the older sender.
LegacySendMessage(uid, message, success_cb, error_cb) ==
    [uid |-> uid, message |-> message, success_cb |-> success_cb, error_cb |-> error_cb]

\* The parameters of one messages.send call of the older sender.
LegacySendParams(uid, message, captcha_sid, captcha_key) ==
    [user_id |-> uid, message |-> message, type |-> "1",
     captcha_sid |-> captcha_sid, captcha_key |-> captcha_key]

LegacySendReq == [kind |-> "messages.send"]

\* The uids the older sender is called with.
LegacyUids == { "5" }

\* show_error(gc, uid, message) of the older sender.
legacy_show_error_calls(msg) ==
    (IF conv_open THEN << Ev("purple_conversation_write", 0, 0, msg.message) >> ELSE <<>>)
    \o (IF msg.error_cb THEN << Ev("error_cb", 0, 0, <<>>) >> ELSE <<>>)

legacy_show_error(rest) ==
    /\ trace' = trace \o legacy_show_error_calls(sendmsg)
    /\ inflight' = rest
    /\ sstate' = "error"
    /\ captcha' = captcha

\* send_im_message_internal: the whole message in one call.
send_im_message_internal(captcha_sid, captcha_key, rest) ==
    /\ trace' = Append(trace, Ev("messages.send", 0, 0,
                     LegacySendParams(sendmsg.uid, sendmsg.message, captcha_sid, captcha_key)))
    /\ inflight' = rest \cup {LegacySendReq}
    /\ sstate' = "sending"

\* send_im_message.
LegacySendIm ==
    /\ sender = "legacy"
    /\ sstate = "created"
    /\ send_im_message_internal("", "", inflight)
    /\ UNCHANGED <<sender, images, sendmsg, captcha, lastReply, sent_msg_ids, conv_open>>
    /\ UNCHANGED <<recvVars, buddyVars, chatVars>>

\* The success callback of the older messages.send call: the value is not read.
LegacySendSuccess ==
    /\ sender = "legacy"
    /\ LegacySendReq \in inflight
    /\ trace' = trace \o (IF sendmsg.success_cb THEN << Ev("success_cb", 0, 0, <<>>) >> ELSE <<>>)
    /\ inflight' = inflight \ {LegacySendReq}
    /\ sstate' = "sent"
    /\ lastReply' = [is_double |-> TRUE, msg_id |-> 1]
    /\ UNCHANGED <<sender, images, sendmsg, captcha, sent_msg_ids, conv_open>>
    /\ UNCHANGED <<recvVars, buddyVars, chatVars>>

\* process_im_error of the older sender.
legacy_process_im_error(error, rest) ==
    IF ~error.object \/ error.code = ""
    THEN legacy_show_error(rest)
    ELSE IF error.code # "VK_CAPTCHA_NEEDED"
    THEN legacy_show_error(rest)
    ELSE IF error.sid = "" \/ error.img = <<>>
    THEN legacy_show_error(rest)
    ELSE /\ trace' = Append(trace, Ev("request_captcha", 0, 0, error.img))
         /\ captcha' = captcha \cup { [captcha_sid |-> error.sid] }
         /\ inflight' = rest
         /\ sstate' = "captcha"

\* The error callback of the older messages.send call.
LegacySendError ==
    /\ sender = "legacy"
    /\ LegacySendReq \in inflight
    /\ \E error \in OtherErrors \cup
             (IF Len(SelectEv(trace, "request_captcha")) < MaxCaptcha
              THEN CaptchaErrors ELSE {}) :
        /\ legacy_process_im_error(error, inflight \ {LegacySendReq})
        /\ lastReply' = error
    /\ UNCHANGED <<sender, images, sendmsg, sent_msg_ids, conv_open>>
    /\ UNCHANGED <<recvVars, buddyVars, chatVars>>

\* The two callbacks the older process_im_error hands to request_captcha.
LegacyCaptchaSolved ==
    /\ sender = "legacy"
    /\ \E c \in captcha : \E captcha_key \in CaptchaKeys :
        /\ send_im_message_internal(c.captcha_sid, captcha_key, inflight)
        /\ captcha' = captcha \ {c}
    /\ lastReply' = NoReply
    /\ UNCHANGED <<sender, images, sendmsg, sent_msg_ids, conv_open>>
    /\ UNCHANGED <<recvVars, buddyVars, chatVars>>

LegacyCaptchaCancelled ==
    /\ sender = "legacy"
    /\ \E c \in captcha :
        /\ trace' = trace \o legacy_show_error_calls(sendmsg)
        /\ captcha' = captcha \ {c}
        /\ sstate' = "error"
    /\ lastReply' = NoReply
    /\ UNCHANGED <<sender, images, sendmsg, inflight, sent_msg_ids, conv_open>>
    /\ UNCHANGED <<recvVars, buddyVars, chatVars>>

----------------------------------------------------------------------------
(* The senders as a state machine *)

\* The receiver does nothing in a send.
RecvIdle ==
    /\ rstate = "none"
    /\ mode = "none"
    /\ m_messages = <<>>
    /\ m_received_cb = FALSE
    /\ lastResp = NoResult
    /\ pages = <<>>
    /\ failed = {}
    /\ imgstore = 0

\* send_message / send_im_attachment have built the SendMessage.
SendInit ==
    /\ RecvIdle
    /\ BuddyIdle
    /\ sender = "new"
    /\ images = NoImages
    /\ inflight = {}
    /\ trace = <<>>
    /\ \E r \in Recipients, text \in Texts, att \in AttachmentStrings, cb \in BOOLEAN :
          sendmsg = SendMessage(r[1], r[2], text, att, cb, cb)
    /\ sstate = "created"
    /\ captcha = {}
    /\ lastReply = NoReply
    /\ sent_msg_ids = {}
    /\ conv_open \in BOOLEAN

\* send_im_message of the older sender has built its SendMessage.
LegacySendInit ==
    /\ RecvIdle
    /\ BuddyIdle
    /\ sender = "legacy"
    /\ images = NoImages
    /\ inflight = {}
    /\ trace = <<>>
    /\ \E uid \in LegacyUids, text \in Texts, cb \in BOOLEAN :
          sendmsg = LegacySendMessage(uid, text, cb, cb)
    /\ sstate = "created"
    /\ captcha = {}
    /\ lastReply = NoReply
    /\ sent_msg_ids = {}
    /\ conv_open \in BOOLEAN

SendNext ==
    \/ SendStart
    \/ SendSuccess
    \/ SendError
    \/ CaptchaSolved
    \/ CaptchaCancelled
    \/ LegacySendIm
    \/ LegacySendSuccess
    \/ LegacySendError
    \/ LegacyCaptchaSolved
    \/ LegacyCaptchaCancelled

\* One message being sent, by either sender.
SendSpec == (SendInit \/ LegacySendInit) /\ [][SendNext]_vars

\* send_message has taken the <img> tags out of a raw message with images
\* and built the SendMessage.
UploadInit ==
    /\ RecvIdle
    /\ BuddyIdle
    /\ sender = "new"
    /\ inflight = {}
    /\ trace = <<>>
    /\ \E raw \in RawMessages, r \in Recipients, cb \in BOOLEAN :
          LET parts == remove_img_tags(raw) IN
          /\ sendmsg = SendMessage(r[1], r[2], parts.clean_message, <<>>, cb, cb)
          /\ images = UploadImgstoreImages(parts.img_ids, <<>>)
    /\ sstate = "created"
    /\ captcha = {}
    /\ lastReply = NoReply
    /\ sent_msg_ids = {}
    /\ conv_open \in BOOLEAN

UploadNext ==
    \/ UploadStart
    \/ UploadSuccess
    \/ UploadError
    \/ SendSuccess
    \/ SendError
    \/ CaptchaSolved
    \/ CaptchaCancelled

\* One message with images being sent.
UploadSpec == UploadInit /\ [][UploadNext]_vars

\* send_message has built its SendMessage, with or without images.
SendMessageInit == SendInit \/ UploadInit

SendMessageNext == SendStart \/ UploadNext

\* One send_message call: the uploads, then the messages.send calls.
SendMessageSpec == SendMessageInit /\ [][SendMessageNext]_vars

\* A receiver run or the sending of a message with images.
PipelineInit == Init \/ UploadInit

PipelineNext == RecvNext \/ UploadNext

PipelineSpec == PipelineInit /\ [][PipelineNext]_vars

----------------------------------------------------------------------------
(* The rendering of one message's attachments *)

\* The photo sizes besides photo_604 that a photo object may carry.
PhotoSizeSets == { {}, { 807 }, { 1280, 807 }, { 2560, 1280, 807 }, { 2560, 807 } }

DocAtt == Attachment("doc", TRUE, TRUE, FALSE, {}, TRUE)

\* The attachments the server may put into the message: photos with and
\* without access_key, the other known types, a type the renderer does not
\* know, a photo lacking a required field, and elements lacking "type" or
\* the object named by it.
RichAttachments ==
    { Attachment("photo", TRUE, TRUE, key, sizes, FALSE) :
          key \in BOOLEAN, sizes \in PhotoSizeSets }
    \cup { Attachment("photo", TRUE, TRUE, TRUE, { 1280 }, TRUE),
           VideoAtt, AudioAtt, DocAtt,
           Attachment("link", TRUE, TRUE, FALSE, {}, FALSE),
           Attachment("photo", TRUE, FALSE, FALSE, {}, FALSE),
           Attachment("", FALSE, FALSE, FALSE, {}, FALSE),
           Attachment("wall", FALSE, FALSE, FALSE, {}, FALSE) }

RichAttachmentLists == SeqsUpTo(RichAttachments, MaxAtts) \ { <<>> }

\* The result of messages.getById for one message with attachments.
RichResult(body, atts) == Result(TRUE, 1, TRUE, << Item(TRUE, 8, 2, 1, body, atts) >>)

\* The success callback of run(message_ids), handed a message with attachments.
GetByIdAttachments ==
    /\ \E req \in inflight :
        /\ req.kind = "messages.getById"
        /\ \E atts \in RichAttachmentLists, body \in { <<>>, << Tok("body", 0) >> } :
            LET result == RichResult(body, atts) IN
            /\ run_success(req, result)
            /\ lastResp' = result
            /\ pages' = accepted(pages, result)
    /\ UNCHANGED <<mode, m_received_cb, failed, imgstore>>
    /\ UNCHANGED <<sendVars, buddyVars, chatVars>>

AttachNext ==
    \/ Run
    \/ GetByIdAttachments
    \/ GetByIdError
    \/ ThumbnailSuccess
    \/ ThumbnailFailure

\* receive_messages for one message with attachments.
AttachSpec == Init /\ [][AttachNext]_vars

----------------------------------------------------------------------------
(* The buddy list (vk-buddy): data and pure parts *)

Uids == 1..MaxUids

\* One element of a friends.get or users.get result.
\*   is_object    whether the node is a JSON object
\*   complete     whether id, first_name and last_name are present
\*   deactivated  whether the "deactivated" string is present
\*   can_write    can_write_private_message
UserFields(is_object, id, complete, deactivated, can_write) ==
    [is_object |-> is_object, id |-> id, complete |-> complete,
     deactivated |-> deactivated, can_write |-> can_write]

\* What the server may say about user uid.
UserObjects(uid) ==
    { UserFields(TRUE, uid, TRUE, FALSE, 1),
      UserFields(TRUE, uid, TRUE, FALSE, 0),
      UserFields(TRUE, uid, TRUE, TRUE, 1),
      UserFields(TRUE, uid, FALSE, FALSE, 1) }

\* The elements of S in ascending order.
RECURSIVE SetToSeq(_)
SetToSeq(S) ==
    IF S = {} THEN <<>>
    ELSE LET least == CHOOSE x \in S : \A y \in S : x <= y
         IN  <<least>> \o SetToSeq(S \ {least})

\* The item lists describing some of the users of S, each once, by uid.
RECURSIVE UserLists(_)
UserLists(S) ==
    IF S = {} THEN { <<>> }
    ELSE LET last == CHOOSE x \in S : \A y \in S : y <= x
         IN  UNION { { l, l \o <<v>> } : l \in UserLists(S \ {last}), v \in UserObjects(last) }

\* A friends.get or users.get result.
\*   object  whether the result is a JSON object (friends.get)
\*   array   whether the item list (items of friends.get, the result itself
\*           of users.get) is an array
BuddyResult(object, array, items) == [object |-> object, array |-> array, items |-> items]

FriendsResults ==
    { BuddyResult(TRUE, TRUE, l) : l \in UserLists(Uids) }
    \cup { BuddyResult(FALSE, FALSE, <<>>), BuddyResult(TRUE, FALSE, <<>>) }

\* users.get answers about the users asked for.
UsersResults(asked) ==
    { BuddyResult(FALSE, TRUE, l) : l \in UserLists(asked) }
    \cup { BuddyResult(TRUE, FALSE, <<>>) }

\* VkUserInfo: the fields the buddy list depends on.
VkUserInfo(name, can_write) == [name |-> name, can_write |-> can_write]

\* first_name + " " + last_name of user uid.
FullName(uid) == <<"name", uid>>

\* The VkUserInfo that user_infos[uid] creates for a uid it does not hold.
NewUserInfo == VkUserInfo(<<>>, TRUE)

\* user_infos[uid]: the entry of uid, created if missing.
entry(infos, uid) == IF uid \in DOMAIN infos THEN infos ELSE (uid :> NewUserInfo) @@ infos

\* on_update_user_info taking a user that cannot be written to for a buddy.
on_update_user_info_accept(infos, fields) ==
    IF ~fields.complete
    THEN [uid |-> 0, infos |-> infos]
    ELSE [uid |-> fields.id,
          infos |-> [entry(infos, fields.id) EXCEPT ![fields.id].name = FullName(fields.id)]]

\* on_update_user_info: the uid of the user described by fields, 0 for none.
on_update_user_info(infos, fields) ==
    IF ~fields.complete
    THEN [uid |-> 0, infos |-> infos]
    ELSE LET uid == fields.id
             named == [entry(infos, uid) EXCEPT ![uid].name = FullName(uid)]
         IN  IF fields.deactivated \/ fields.can_write # 1
             THEN [uid |-> 0, infos |-> [named EXCEPT ![uid].can_write = FALSE]]
             ELSE [uid |-> uid, infos |-> named]

\* The loop of on_update_user_infos over the items.
RECURSIVE update_user_items(_, _, _)
update_user_items(infos, items, buddy_uids) ==
    IF items = <<>> THEN [buddy_uids |-> buddy_uids, infos |-> infos]
    ELSE LET v == Head(items) IN
         IF ~v.is_object THEN update_user_items(infos, Tail(items), buddy_uids)
         ELSE LET r == on_update_user_info(infos, v)
              IN  update_user_items(r.infos, Tail(items),
                                    IF r.uid # 0 THEN buddy_uids \cup {r.uid} ELSE buddy_uids)

\* on_update_user_infos(gc, result, friends_get).
on_update_user_infos(infos, result, friends_get) ==
    IF friends_get /\ ~result.object THEN [buddy_uids |-> {}, infos |-> infos]
    ELSE IF ~result.array THEN [buddy_uids |-> {}, infos |-> infos]
    ELSE update_user_items(infos, result.items, {})

\* The two alias calls of update_buddy_in_blist.
alias_calls(uid, info) ==
    << Ev("serv_got_alias", uid, 0, info.name),
       Ev("purple_serv_got_private_alias", uid, 0, info.name) >>

\* update_buddy_in_blist setting the aliases without looking at "custom-alias".
update_buddy_in_blist_alias(bl, uid, info) ==
    [blist |-> bl \cup {uid},
     calls |-> (IF uid \in bl THEN <<>> ELSE << Ev("purple_blist_add_buddy", uid, 0, <<>>) >>)
               \o alias_calls(uid, info)]

\* update_buddy_in_blist: the buddy is added if purple_find_buddy does not
\* find it, and its aliases are set unless its node has "custom-alias" set
\* (the node of a buddy just created has not).  Presence, last seen time and
\* icon of the buddy are not modelled.
update_buddy_in_blist(bl, uid, info) ==
    [blist |-> bl \cup {uid},
     calls |-> (IF uid \in bl THEN <<>> ELSE << Ev("purple_blist_add_buddy", uid, 0, <<>>) >>)
               \o (IF uid \in bl /\ uid \in custom_alias THEN <<>> ELSE alias_calls(uid, info))]

RECURSIVE update_buddies_in_blist(_, _, _)
update_buddies_in_blist(infos, bl, uids) ==
    IF uids = <<>> THEN [blist |-> bl, calls |-> <<>>]
    ELSE LET one == update_buddy_in_blist(bl, Head(uids), infos[Head(uids)])
             others == update_buddies_in_blist(infos, one.blist, Tail(uids))
         IN  [blist |-> others.blist, calls |-> one.calls \o others.calls]

\* Whether update_buddy_list keeps a buddy for uid.
wanted(infos, friends, uid) ==
    /\ uid \in DOMAIN infos
    /\ (~friends_only \/ uid \in friends \/ uid \in convs)

\* update_buddy_list leaving the buddies it has no use for in the list.
update_buddy_list_no_remove(infos, friends, bl) ==
    LET added == update_buddies_in_blist(infos, bl,
                     SetToSeq({ uid \in DOMAIN infos : wanted(infos, friends, uid) }))
    IN  [blist |-> added.blist,
         calls |-> << Ev("update_buddy_list", 0, 0, <<>>) >> \o added.calls]

\* update_buddy_list: the first loop adds, the second removes.
update_buddy_list(infos, friends, bl) ==
    LET added == update_buddies_in_blist(infos, bl,
                     SetToSeq({ uid \in DOMAIN infos : wanted(infos, friends, uid) }))
        removed == SetToSeq({ uid \in added.blist : ~wanted(infos, friends, uid) })
    IN  [blist |-> added.blist \ { removed[i] : i \in DOMAIN removed },
         calls |-> << Ev("update_buddy_list", 0, 0, <<>>) >> \o added.calls
                   \o [i \in DOMAIN removed |-> Ev("purple_blist_remove_buddy", removed[i], 0, <<>>)]]

\* The loop of update_buddy_list_for: user_infos[uid] for each uid.
RECURSIVE entries(_, _)
entries(infos, uids) ==
    IF uids = <<>> THEN infos ELSE entries(entry(infos, Head(uids)), Tail(uids))

\* update_buddy_list_for heeding only_friends_in_blist as update_buddy_list does.
update_buddy_list_for_wanted(infos, bl, uids) ==
    LET added == update_buddies_in_blist(entries(infos, uids), bl,
                     SelectSeq(uids, LAMBDA uid : wanted(entries(infos, uids), friend_uids, uid)))
    IN  [infos |-> entries(infos, uids), blist |-> added.blist,
         calls |-> << Ev("update_buddy_list_for", 0, 0, uids) >> \o added.calls]

\* update_buddy_list_for(gc, uids, update_presence).
update_buddy_list_for(infos, bl, uids) ==
    LET added == update_buddies_in_blist(entries(infos, uids), bl, uids)
    IN  [infos |-> entries(infos, uids), blist |-> added.blist,
         calls |-> << Ev("update_buddy_list_for", 0, 0, uids) >> \o added.calls]

\* remove_from_buddy_list_if_not_needed keeping the buddies with an open
\* conversation even when convo_closed is set.
remove_from_buddy_list_keep_convs(bl, uids, convo_closed) ==
    LET entered == << Ev("remove_from_buddy_list_if_not_needed",
                         IF convo_closed THEN 1 ELSE 0, 0, uids) >>
        removed == SelectSeq(uids, LAMBDA uid :
                       uid \notin friend_uids /\ uid \notin convs /\ uid \in bl)
    IN  IF ~friends_only THEN [blist |-> bl, calls |-> entered]
        ELSE [blist |-> bl \ { removed[i] : i \in DOMAIN removed },
              calls |-> entered \o [i \in DOMAIN removed |->
                            Ev("purple_blist_remove_buddy", removed[i], 0, <<>>)]]

\* remove_from_buddy_list_if_not_needed(gc, uids, convo_closed).
remove_from_buddy_list_if_not_needed(bl, uids, convo_closed) ==
    LET entered == << Ev("remove_from_buddy_list_if_not_needed",
                         IF convo_closed THEN 1 ELSE 0, 0, uids) >>
        removed == SelectSeq(uids, LAMBDA uid :
                       /\ ~(uid \in friend_uids \/ (~convo_closed /\ uid \in convs))
                       /\ uid \in bl)
    IN  IF ~friends_only THEN [blist |-> bl, calls |-> entered]
        ELSE [blist |-> bl \ { removed[i] : i \in DOMAIN removed },
              calls |-> entered \o [i \in DOMAIN removed |->
                            Ev("purple_blist_remove_buddy", removed[i], 0, <<>>)]]

\* is_unknown_uid: no VkUserInfo is held for uid.
is_unknown_uid(infos, uid) == uid \notin DOMAIN infos

----------------------------------------------------------------------------
(* The buddy list: requests and callbacks *)

\* A call in flight and what its callback captured: the uids asked for, what
\* to do once the user infos are there ("update_buddy_list",
\* "update_buddy_list_for" with its uids, or "none"), and whether on_update_cb
\* is set.
BuddyReq(kind, uids, then, for, cb) ==
    [kind |-> kind, uids |-> uids, then |-> then, for |-> for, cb |-> cb]

\* An answer of the API: a result, or an error (ok = FALSE).
Answer(kind, ok, result) == [kind |-> kind, ok |-> ok, result |-> result]

\* The uid lists the operations are called with.
UidLists == { SetToSeq(S) : S \in SUBSET Uids \ {{}} }

\* The users the session may know when an operation starts, and the users
\* messages.getDialogs may name.
KnownUids == { 1 }

DialogUidSets == { {}, { MaxUids } }

on_update_cb_calls(cb) == IF cb THEN << Ev("on_update_cb", 0, 0, <<>>) >> ELSE <<>>

\* The callback calling on_update_cb before it updates the buddy list.
infos_updated_cb_first(infos, then, for, cb, tr, rest) ==
    LET done == IF then = "update_buddy_list"
                THEN [infos |-> infos] @@ update_buddy_list(infos, friend_uids, blist)
                ELSE IF then = "update_buddy_list_for"
                THEN update_buddy_list_for(infos, blist, for)
                ELSE [infos |-> infos, blist |-> blist, calls |-> <<>>]
    IN  /\ user_infos' = done.infos
        /\ blist' = done.blist
        /\ custom_alias' = custom_alias \cap done.blist
        /\ trace' = tr \o on_update_cb_calls(cb) \o done.calls
        /\ inflight' = rest

\* The callback handed to add_or_update_user_infos by its three callers.
infos_updated(infos, then, for, cb, tr, rest) ==
    LET done == IF then = "update_buddy_list"
                THEN [infos |-> infos] @@ update_buddy_list(infos, friend_uids, blist)
                ELSE IF then = "update_buddy_list_for"
                THEN update_buddy_list_for(infos, blist, for)
                ELSE [infos |-> infos, blist |-> blist, calls |-> <<>>]
    IN  /\ user_infos' = done.infos
        /\ blist' = done.blist
        /\ custom_alias' = custom_alias \cap done.blist
        /\ trace' = tr \o done.calls \o on_update_cb_calls(cb)
        /\ inflight' = rest

\* add_or_update_user_infos(gc, uids, on_update_cb).
add_or_update_user_infos(infos, uids, then, for, cb, tr, rest) ==
    IF uids = <<>>
    THEN infos_updated(infos, then, for, cb, tr, rest)
    ELSE /\ user_infos' = infos
         /\ blist' = blist
         /\ custom_alias' = custom_alias
         /\ trace' = Append(tr, Ev("users.get", 0, 0, uids))
         /\ inflight' = rest \cup { BuddyReq("users.get", uids, then, for, cb) }

\* No buddy operation has started yet.
BuddyReady == trace = <<>> /\ inflight = {}

\* update_buddies(gc, update_presence, on_update_cb).
UpdateBuddies ==
    /\ BuddyReady
    /\ \E cb \in BOOLEAN :
        inflight' = { BuddyReq("friends.get", <<>>, "update_buddy_list", <<>>, cb) }
    /\ trace' = << Ev("friends.get", 0, 0, <<>>) >>
    /\ UNCHANGED buddyVars
    /\ UNCHANGED <<recvVars, sendVars, chatVars>>

\* The friends.get callback of update_buddies.
friends_received(req, result) ==
    LET r == on_update_user_infos(user_infos, result, TRUE) IN
    /\ friend_uids' = r.buddy_uids
    /\ user_infos' = r.infos
    /\ trace' = Append(trace, Ev("messages.getDialogs", 0, 0, <<>>))
    /\ inflight' = (inflight \ {req})
           \cup { BuddyReq("messages.getDialogs", <<>>, req.then, <<>>, req.cb) }
    /\ blist' = blist

FriendsGetSuccess ==
    /\ \E req \in inflight :
        /\ req.kind = "friends.get"
        /\ \E result \in FriendsResults :
            /\ friends_received(req, result)
            /\ answers' = Append(answers, Answer("friends.get", TRUE, result))
    /\ UNCHANGED <<friends_only, convs, custom_alias>>
    /\ UNCHANGED <<recvVars, sendVars, chatVars>>

\* friends.get failed: update_buddies gave vk_call_api no error callback.
FriendsGetError ==
    /\ \E req \in inflight :
        /\ req.kind = "friends.get"
        /\ inflight' = inflight \ {req}
    /\ answers' = Append(answers, Answer("friends.get", FALSE, <<>>))
    /\ UNCHANGED <<trace, user_infos, friend_uids, blist, friends_only, convs, custom_alias>>
    /\ UNCHANGED <<recvVars, sendVars, chatVars>>

\* The received_users_cb asking for every dialog partner, friend or not.
dialogs_received_all(req, dialog_uids) ==
    LET non_friend_uids == IF ~friends_only THEN SetToSeq(dialog_uids) ELSE <<>>
    IN  add_or_update_user_infos(user_infos, non_friend_uids, req.then, <<>>, req.cb,
                                 trace, inflight \ {req})

\* The received_users_cb of update_buddies, handed the uids of the dialogs.
dialogs_received(req, dialog_uids) ==
    LET non_friend_uids == IF ~friends_only
                           THEN SetToSeq(dialog_uids \ friend_uids)
                           ELSE <<>>
    IN  add_or_update_user_infos(user_infos, non_friend_uids, req.then, <<>>, req.cb,
                                 trace, inflight \ {req})

\* get_users_from_dialogs: all dialogs were received.
DialogsReceived ==
    /\ \E req \in inflight :
        /\ req.kind = "messages.getDialogs"
        /\ \E dialog_uids \in DialogUidSets :
            /\ dialogs_received(req, dialog_uids)
            /\ answers' = Append(answers, Answer("messages.getDialogs", TRUE, dialog_uids))
    /\ UNCHANGED <<friend_uids, friends_only, convs>>
    /\ UNCHANGED <<recvVars, sendVars, chatVars>>

\* get_users_from_dialogs: messages.getDialogs failed.
DialogsError ==
    /\ \E req \in inflight :
        /\ req.kind = "messages.getDialogs"
        /\ dialogs_received(req, {})
    /\ answers' = Append(answers, Answer("messages.getDialogs", FALSE, {}))
    /\ UNCHANGED <<friend_uids, friends_only, convs>>
    /\ UNCHANGED <<recvVars, sendVars, chatVars>>

\* The users.get callback of add_or_update_user_infos.
users_received(req, result) ==
    LET r == on_update_user_infos(user_infos, result, FALSE) IN
    infos_updated(r.infos, req.then, req.for, req.cb, trace, inflight \ {req})

UsersGetSuccess ==
    /\ \E req \in inflight :
        /\ req.kind = "users.get"
        /\ \E result \in UsersResults({ req.uids[i] : i \in DOMAIN req.uids }) :
            /\ users_received(req, result)
            /\ answers' = Append(answers, Answer("users.get", TRUE, result))
    /\ UNCHANGED <<friend_uids, friends_only, convs>>
    /\ UNCHANGED <<recvVars, sendVars, chatVars>>

\* users.get failed: add_or_update_user_infos gave vk_call_api no error callback.
UsersGetError ==
    /\ \E req \in inflight :
        /\ req.kind = "users.get"
        /\ inflight' = inflight \ {req}
    /\ answers' = Append(answers, Answer("users.get", FALSE, <<>>))
    /\ UNCHANGED <<trace, user_infos, friend_uids, blist, friends_only, convs, custom_alias>>
    /\ UNCHANGED <<recvVars, sendVars, chatVars>>

\* add_or_update_user_infos called on its own, with uids.
AddOrUpdateUserInfos ==
    /\ BuddyReady
    /\ \E uids \in UidLists, cb \in BOOLEAN :
        add_or_update_user_infos(user_infos, uids, "none", <<>>, cb, trace, inflight)
    /\ UNCHANGED <<friend_uids, friends_only, convs, answers>>
    /\ UNCHANGED <<recvVars, sendVars, chatVars>>

\* add_to_buddy_list(gc, uids, on_update_cb), with uids.
AddToBuddyList ==
    /\ BuddyReady
    /\ \E uids \in UidLists, cb \in BOOLEAN :
        LET unknown_uids == SelectSeq(uids, LAMBDA uid : is_unknown_uid(user_infos, uid))
        IN  add_or_update_user_infos(user_infos, unknown_uids, "update_buddy_list_for",
                                     uids, cb, trace, inflight)
    /\ UNCHANGED <<friend_uids, friends_only, convs, answers>>
    /\ UNCHANGED <<recvVars, sendVars, chatVars>>

\* remove_from_buddy_list_if_not_needed called for uids.
RemoveIfNotNeeded ==
    /\ BuddyReady
    /\ \E uids \in UidLists, convo_closed \in BOOLEAN :
        LET done == remove_from_buddy_list_if_not_needed(blist, uids, convo_closed) IN
        /\ blist' = done.blist
        /\ custom_alias' = custom_alias \cap done.blist
        /\ trace' = trace \o done.calls
    /\ UNCHANGED <<inflight, user_infos, friend_uids, friends_only, convs, answers>>
    /\ UNCHANGED <<recvVars, sendVars, chatVars>>

\* A session that knows some users from an earlier friends.get, with some
\* buddies in the buddy list and some conversations open.
BuddyInit ==
    /\ RecvIdle
    /\ SendIdle
    /\ inflight = {}
    /\ trace = <<>>
    /\ \E known \in SUBSET KnownUids :
        /\ user_infos = [uid \in known |-> VkUserInfo(FullName(uid), TRUE)]
        /\ friend_uids \in SUBSET known
        /\ answers = IF known = {} THEN <<>>
                     ELSE << Answer("friends.get", TRUE, BuddyResult(TRUE, TRUE,
                               [i \in 1..Cardinality(known) |->
                                   UserFields(TRUE, SetToSeq(known)[i], TRUE, FALSE, 1)])) >>
    /\ blist \in SUBSET Uids
    /\ custom_alias \in SUBSET (blist \cap KnownUids)
    /\ chat_conv_ids = <<>>
    /\ friends_only \in BOOLEAN
    /\ convs \in SUBSET { MaxUids }

BuddyNext ==
    \/ UpdateBuddies
    \/ FriendsGetSuccess
    \/ FriendsGetError
    \/ DialogsReceived
    \/ DialogsError
    \/ UsersGetSuccess
    \/ UsersGetError
    \/ AddOrUpdateUserInfos
    \/ AddToBuddyList
    \/ RemoveIfNotNeeded

\* One operation on the buddy list.
BuddySpec == BuddyInit /\ [][BuddyNext]_vars

----------------------------------------------------------------------------
(* Chat conversation ids (vk-chat.h) *)

\* The Vk.com chats conversations are opened for.
ChatIds == { 11, 12 }

\* The conversation ids registered in ids.
ConvIds(ids) == { ids[i][1] : i \in DOMAIN ids }

\* add_new_conv_id numbering the conversations by their count.
add_new_conv_id_count(ids, chat_id) ==
    LET conv_id == Len(ids) + 1
    IN  [conv_id |-> conv_id, ids |-> Append(ids, <<conv_id, chat_id>>)]

\* add_new_conv_id: a conversation id above every id in use is registered
\* for chat_id, whether or not chat_id has a conversation already.
add_new_conv_id(ids, chat_id) ==
    LET conv_id == IF ids = <<>> THEN 1
                   ELSE 1 + (CHOOSE c \in ConvIds(ids) : \A d \in ConvIds(ids) : d <= c)
    IN  [conv_id |-> conv_id, ids |-> Append(ids, <<conv_id, chat_id>>)]

\* remove_conv_id: the conversation id is no longer registered.
remove_conv_id(ids, conv_id) == SelectSeq(ids, LAMBDA pair : pair[1] # conv_id)

\* chat_id_to_conv_id: the conversation id of a conversation open for
\* chat_id, 0 if none is.
chat_id_to_conv_id(ids, chat_id) ==
    LET found == SelectSeq(ids, LAMBDA pair : pair[2] = chat_id)
    IN  IF found = <<>> THEN 0 ELSE found[1][1]

\* conv_id_to_chat_id: the chat id of conversation conv_id, 0 if conv_id
\* matches no chat.
conv_id_to_chat_id(ids, conv_id) ==
    LET found == SelectSeq(ids, LAMBDA pair : pair[1] = conv_id)
    IN  IF found = <<>> THEN 0 ELSE found[1][2]

\* A chat conversation is opened.
AddNewConvId ==
    /\ Len(trace) < MaxChatOps
    /\ \E chat_id \in ChatIds :
        LET added == add_new_conv_id(chat_conv_ids, chat_id) IN
        /\ chat_conv_ids' = added.ids
        /\ trace' = Append(trace, Ev("add_new_conv_id", added.conv_id, chat_id, <<>>))
    /\ UNCHANGED inflight
    /\ UNCHANGED <<recvVars, sendVars, buddyVars>>

\* A conversation is closed; the host may name any conversation id.
RemoveConvId ==
    /\ Len(trace) < MaxChatOps
    /\ \E conv_id \in 1..MaxChatOps :
        /\ chat_conv_ids' = remove_conv_id(chat_conv_ids, conv_id)
        /\ trace' = Append(trace, Ev("remove_conv_id", conv_id, 0, <<>>))
    /\ UNCHANGED inflight
    /\ UNCHANGED <<recvVars, sendVars, buddyVars>>

\* A connection with no chat conversation open.
ChatInit ==
    /\ RecvIdle
    /\ SendIdle
    /\ BuddyIdle
    /\ inflight = {}
    /\ trace = <<>>

ChatNext == AddNewConvId \/ RemoveConvId

ChatSpec == ChatInit /\ [][ChatNext]_vars

----------------------------------------------------------------------------
(* What a run did, read off the trace *)

Range(s) == { s[i] : i \in DOMAIN s }

Occ(s, x) == Cardinality({ i \in DOMAIN s : s[i] = x })

SameBag(s, t) ==
    LET ss == s
        tt == t
    IN  Len(ss) = Len(tt) /\ \A x \in Range(ss) : Occ(ss, x) = Occ(tt, x)

RECURSIVE Flatten(_)
Flatten(ss) == IF ss = <<>> THEN <<>> ELSE Head(ss) \o Flatten(Tail(ss))

\* The serv_got_im calls made so far.
Delivered == SelectEv(trace, "serv_got_im")

DeliveredMids == LET d == Delivered IN [i \in 1..Len(d) |-> d[i].a]

HttpGets == SelectEv(trace, "http_get")

MarkReads == SelectEv(trace, "messages.markAsRead")

\* All items of the well-formed results received so far, in arrival order,
\* and the ids of the well-formed ones among them.
ArrivedItems == Flatten(pages)

ArrivedOkMids ==
    LET items == ArrivedItems
        ok == SelectSeq(items, LAMBDA v : v.ok)
    IN  [i \in 1..Len(ok) |-> ok[i].mid]

NewReceiver == mode \in {"unread", "ids"}

PageKinds == {"messages.get", "messages.getById"}

PageFailed == \E req \in failed : req.kind \in PageKinds

ThumbnailFailed == \E req \in failed : req.kind = "http_get"

\* The thumbnails queued by messages, as <<message, thumbnail>> index pairs
\* in lexicographic order.
RECURSIVE ThumbPairsFrom(_, _)
ThumbPairsFrom(messages, m) ==
    IF m >= Len(messages) THEN <<>>
    ELSE [t \in 1..Len(messages[m + 1].thumbnail_urls) |-> <<m, t - 1>>]
         \o ThumbPairsFrom(messages, m + 1)

\* The position of the last event named e in the trace, 0 if there is none.
LastPos(e) ==
    LET ps == { i \in DOMAIN trace : trace[i].e = e }
    IN  IF ps = {} THEN 0 ELSE CHOOSE i \in ps : \A j \in ps : j <= i

IsPrefix(s, t) == Len(s) <= Len(t) /\ \A i \in 1..Len(s) : s[i] = t[i]

----------------------------------------------------------------------------
(* Claims about the receiver *)

\* C1: the serv_got_im deliveries made by finish() are in non-decreasing
\* timestamp order, whatever the order in which pages and items arrived
\* (unread mode, id-list mode and the older receiver).
C1_DeliveredAscending ==
    LET d == Delivered IN
    \A i, j \in 1..Len(d) : i < j => d[i].b <= d[j].b

\* A finished run whose items arrived newest first and were all delivered.
C1_Witness ==
    /\ rstate = "deleted"
    /\ Len(Delivered) >= 2
    /\ \E i, j \in 1..Len(ArrivedItems) :
          /\ i < j
          /\ ArrivedItems[i].ok /\ ArrivedItems[j].ok
          /\ ArrivedItems[i].date > ArrivedItems[j].date

\* Whether a messages.get request is in flight.
GetInFlight == \E req \in inflight : req.kind = "messages.get"

\* The state right after a success callback of messages.get ran in unread mode.
AfterUnreadPage == mode = "unread" /\ lastResp # NoResult

\* C2 as stated: in unread mode a successful response is followed by one
\* further messages.get request exactly when its item list is non-empty,
\* whatever its count field is.
C2_Original ==
    AfterUnreadPage => (GetInFlight <=> Len(lastResp.items) > 0)

\* C2 amended: a successful response that has both "count" and "items" and a
\* non-empty item list is followed by exactly one further messages.get
\* request, at the previous offset plus the number of items; a response with
\* an empty item list, or lacking "count" or "items", is followed by none.
\* The value of count plays no part.
C2_PaginationHalts ==
    mode = "unread" =>
        /\ Cardinality({ req \in inflight : req.kind = "messages.get" }) <= 1
        /\ Len(SelectEv(trace, "messages.get"))
              = 1 + Cardinality({ i \in DOMAIN pages : Len(pages[i]) > 0 })
        /\ AfterUnreadPage =>
              ( GetInFlight <=>
                  (lastResp.hasCount /\ lastResp.hasItems /\ Len(lastResp.items) > 0) )
        /\ AfterUnreadPage /\ GetInFlight =>
              \A req \in inflight : req.a = Len(ArrivedItems)

\* A run that went on after a page whose count said 0 and stopped at an
\* empty page whose count said 9.
C2_Witness ==
    /\ AfterUnreadPage
    /\ rstate = "deleted"
    /\ Len(pages) >= 2
    /\ lastResp = Result(TRUE, 9, TRUE, <<>>)
    /\ Len(SelectEv(trace, "messages.get")) = Len(pages)

\* C3: no text handed to serv_got_im contains a raw
\* <thumbnail-placeholder-N> token, whether the download succeeded or failed.
C3_NoRawPlaceholder ==
    LET d == Delivered IN
    \A i \in 1..Len(d) : \A k \in 1..Len(d[i].x) : ~IsPlaceholder(d[i].x[k])

\* C4: an item lacking user_id, date, body or id is skipped and nothing else
\* changes: the well-formed items before and after it are accumulated, in
\* order, pagination continues, and they are delivered at finish().
C4_MalformedItemSkipped ==
    NewReceiver =>
        /\ rstate = "running" =>
              [i \in 1..Len(m_messages) |-> m_messages[i].mid] = ArrivedOkMids
        /\ rstate = "deleted" => SameBag(DeliveredMids, ArrivedOkMids)
        /\ (AfterUnreadPage /\ lastResp.hasCount /\ lastResp.hasItems
              /\ Len(lastResp.items) > 0) => GetInFlight

\* A finished unread run that received a page with a malformed item between
\* two well-formed ones, went on paginating and delivered messages.
C4_Witness ==
    /\ mode = "unread"
    /\ rstate = "deleted"
    /\ Len(pages) >= 2
    /\ \E p \in DOMAIN pages : \E i, j, k \in DOMAIN pages[p] :
          i < j /\ j < k /\ pages[p][i].ok /\ ~pages[p][j].ok /\ pages[p][k].ok
    /\ Len(Delivered) >= 2

\* One markAsRead request, after the last delivery, naming the delivered ids
\* in delivery order.
OneMarkRead ==
    /\ Len(MarkReads) = 1
    /\ LastPos("messages.markAsRead") > LastPos("serv_got_im")
    /\ MarkReads[1].x = DeliveredMids

\* C5 as stated: every run that reaches finish() issues exactly one
\* messages.markAsRead request, after the last delivery, whose id list is
\* the ids of the delivered messages in delivery order.
C5_Original ==
    (NewReceiver /\ rstate = "deleted") => OneMarkRead

\* C5 amended: a run that reaches finish() with at least one accumulated
\* message issues exactly one messages.markAsRead request, after the last
\* delivery, whose id list is the ids of the delivered messages in delivery
\* order; a run that accumulated no message issues none.
C5_MarkReadOnce ==
    (NewReceiver /\ rstate = "deleted") =>
        IF Delivered = <<>> THEN MarkReads = <<>> ELSE OneMarkRead

\* A finished run that delivered the message with id 2 before the one with id 1.
C5_Witness ==
    /\ NewReceiver
    /\ rstate = "deleted"
    /\ DeliveredMids = <<2, 1>>
    /\ Len(MarkReads) = 1

\* C6: nothing is delivered before the last page request and the last
\* thumbnail request of the run have completed, and the deliveries of a run
\* are made in one step: once a delivery was made no request is in flight,
\* every request precedes the first delivery, and no other call lies between
\* two deliveries.
C6_DeliveryAtomic ==
    LET at == { i \in DOMAIN trace : trace[i].e = "serv_got_im" } IN
    at # {} =>
        LET first == CHOOSE i \in at : \A j \in at : i <= j
            last == CHOOSE i \in at : \A j \in at : j <= i
        IN  /\ inflight = {}
            /\ rstate = "deleted"
            /\ \A j \in first..Len(trace) : trace[j].e \notin (PageKinds \cup {"http_get"})
            /\ \A j \in first..last : j \in at

\* A finished run that paginated, downloaded thumbnails and delivered messages.
C6_Witness ==
    /\ rstate = "deleted"
    /\ Len(Delivered) >= 2
    /\ Len(SelectEv(trace, "messages.get")) >= 2
    /\ HttpGets # <<>>

\* The thumbnails requested so far, as <<message, thumbnail>> pairs.
RequestedThumbs == LET h == HttpGets IN [i \in 1..Len(h) |-> <<h[i].a, h[i].b>>]

\* The thumbnails queued by the items received so far.
QueuedThumbs == ThumbPairsFrom(process_items(ArrivedItems, <<>>), 0)

\* One request at a time, in lexicographic order, none before the last page.
ThumbnailsSequential ==
    LET requested == RequestedThumbs
        queued == QueuedThumbs
        lastPage == LastPos("messages.get") + LastPos("messages.getById")
    IN  /\ Cardinality(inflight) <= 1
        /\ IsPrefix(requested, queued)
        /\ \A i \in DOMAIN trace : trace[i].e = "http_get" => i > lastPage
        /\ (\E req \in inflight : req.kind = "http_get") =>
              /\ requested # <<>>
              /\ inflight = { Req("http_get", requested[Len(requested)][1],
                                              requested[Len(requested)][2]) }

C8_ThumbnailFailureContinues ==
    (NewReceiver /\ ThumbnailFailed) =>
        /\ rstate = "running" => \E req \in inflight : req.kind = "http_get"
        /\ rstate = "deleted" =>
              LET arrived == ArrivedOkMids
                  delivered == DeliveredMids
              IN  /\ RequestedThumbs = QueuedThumbs
                  /\ SameBag(delivered, arrived)
                  /\ \A req \in failed : arrived[req.a + 1] \in Range(delivered)

\* A finished run whose first thumbnail download failed and that went on to
\* download thumbnails of a later message.
C8_Witness ==
    /\ rstate = "deleted"
    /\ Req("http_get", 0, 0) \in failed
    /\ Len(RequestedThumbs) >= 3
    /\ imgstore >= 1
    /\ Len(Delivered) >= 2

\* C9: when a messages.get or messages.getById call fails, the receiver
\* issues no further page or thumbnail request, goes straight to finish(),
\* delivers the messages accumulated from earlier pages in timestamp order,
\* invokes received_cb and destroys itself; the failed request is not
\* re-issued.
C9_PageErrorFinishes ==
    PageFailed =>
        /\ rstate = "deleted"
        /\ inflight = {}
        /\ HttpGets = <<>>
        /\ Len(SelectEv(trace, "messages.get")) + Len(SelectEv(trace, "messages.getById"))
              = Len(pages) + 1
        /\ SameBag(DeliveredMids, ArrivedOkMids)
        /\ C1_DeliveredAscending
        /\ m_received_cb => Len(SelectEv(trace, "received_cb")) = 1
        /\ trace[Len(trace)].e = "delete"
        /\ Len(SelectEv(trace, "delete")) = 1

\* A run whose second page request failed after a page of two messages
\* arrived newest first.
C9_Witness ==
    /\ PageFailed
    /\ m_received_cb
    /\ Len(pages) = 1
    /\ DeliveredMids = <<2, 1>>

----------------------------------------------------------------------------
(* Claims about the sender *)

ShowErrorEvents == {"purple_conversation_write", "error_cb"}

\* The challenge at position i of the trace was raised right after a
\* messages.send call and is followed, if by anything, either by one
\* messages.send call with the parameters of that call plus the captcha_sid
\* of the challenge and a solved key, or by the calls of show_error.
ChallengeAnswered(i) ==
    /\ i > 1
    /\ trace[i - 1].e = "messages.send"
    /\ i < Len(trace) =>
          \/ /\ trace[i + 1].e = "messages.send"
             /\ trace[i + 1].x.captcha_key \in CaptchaKeys
             /\ trace[i + 1].x = [trace[i - 1].x EXCEPT
                                    !.captcha_sid = trace[i].x[2],
                                    !.captcha_key = trace[i + 1].x.captcha_key]
          \/ /\ trace[i + 1].e \in ShowErrorEvents
             /\ \A j \in (i + 1)..Len(trace) : trace[j].e \in ShowErrorEvents

\* C10: a messages.send call failing with a well-formed CAPTCHA-needed error
\* raises exactly one challenge; once it is solved exactly one new
\* messages.send call is issued, with the parameters of the failed call plus
\* the captcha_sid and the solved captcha_key; if the challenge is cancelled
\* no call is issued and the error is surfaced.
C10_CaptchaResubmission ==
    /\ \A i \in DOMAIN trace : trace[i].e = "request_captcha" => ChallengeAnswered(i)
    /\ lastReply \in CaptchaErrors =>
          /\ sstate = "captcha"
          /\ trace[Len(trace)] = Ev("request_captcha", 0, 0, lastReply.img)
          /\ captcha = { [captcha_sid |-> lastReply.sid] }
          /\ inflight = {}
    /\ sstate = "sending" => (Cardinality(inflight) = 1 /\ captcha = {})
    /\ (sstate = "error" /\ trace[Len(trace)].e \in ShowErrorEvents \cup {"request_captcha"}) =>
          /\ inflight = {}
          /\ captcha = {}
          /\ Len(SelectEv(trace, "purple_conversation_write")) = (IF conv_open THEN 1 ELSE 0)
          /\ Len(SelectEv(trace, "error_cb")) = (IF sendmsg.error_cb THEN 1 ELSE 0)

\* A second chunk failed with a CAPTCHA error for sid2 after a first
\* challenge for sid1 was solved, and was resubmitted with sid2.
C10_Witness ==
    \E i \in DOMAIN trace :
        /\ trace[i].e = "request_captcha"
        /\ trace[i].x = CaptchaImg("sid2")
        /\ i > 1 /\ i < Len(trace)
        /\ trace[i - 1].x.captcha_sid = "sid1"
        /\ trace[i + 1].e = "messages.send"
        /\ trace[i + 1].x.message # trace[1].x.message

\* C11: when a messages.send call fails with anything other than a
\* well-formed CAPTCHA-needed error, no further messages.send call is issued
\* for the message (nothing is left that could issue one), an error line is
\* written to the conversation with the recipient when one is open, and
\* error_cb is invoked when it is set, once each and after the failed call.
C11_OtherErrorTerminal ==
    lastReply \in OtherErrors =>
        LET lastSend == LastPos("messages.send")
            writes == { i \in DOMAIN trace : trace[i].e = "purple_conversation_write" }
            cbs == { i \in DOMAIN trace : trace[i].e = "error_cb" }
        IN  /\ sstate = "error"
            /\ inflight = {}
            /\ captcha = {}
            /\ ~ENABLED SendNext
            /\ Cardinality(writes) = (IF conv_open THEN 1 ELSE 0)
            /\ Cardinality(cbs) = (IF sendmsg.error_cb THEN 1 ELSE 0)
            /\ \A i \in writes \cup cbs : i > lastSend
            /\ \A i \in lastSend + 1..Len(trace) : trace[i].e \in ShowErrorEvents

\* The call for the second chunk of a message failed with an error code other
\* than CAPTCHA-needed, with the conversation open and error_cb set.
C11_Witness ==
    /\ sender = "new"
    /\ lastReply = ApiError(TRUE, "other", "", <<>>)
    /\ conv_open
    /\ sendmsg.error_cb
    /\ Len(SelectEv(trace, "messages.send")) = 2
    /\ trace[Len(trace)].e = "error_cb"

\* The messages.send calls that succeeded: the next call, or success_cb,
\* follows at once, or the send is over and nothing follows.
SucceededSends ==
    { i \in DOMAIN trace :
        /\ trace[i].e = "messages.send"
        /\ IF i < Len(trace)
           THEN trace[i + 1].e \in {"messages.send", "success_cb"}
           ELSE sstate = "sent" }

RECURSIVE ChunksFrom(_, _)
ChunksFrom(i, ok) ==
    IF i > Len(trace) THEN <<>>
    ELSE (IF i \in ok THEN trace[i].x.message ELSE <<>>) \o ChunksFrom(i + 1, ok)

\* The text the server has accepted so far, and the text still to be sent.
SentText == ChunksFrom(1, SucceededSends)

UnsentText == IF sstate = "sent" THEN <<>> ELSE sendmsg.text

\* The call in flight carries the longest prefix of the unsent text whose URL
\* encoding fits the limit, and it is the only call in flight.
ChunkInFlight ==
    (sender = "new" /\ sstate = "sending") =>
        LET call == trace[Len(trace)]
            chunk == call.x.message
        IN  /\ call.e = "messages.send"
            /\ Cardinality(inflight) = 1
            /\ IsPrefix(chunk, sendmsg.text)
            /\ EncodedLen(chunk) <= MaxUrlencoded
            /\ Len(chunk) < Len(sendmsg.text) =>
                  EncodedLen(SubSeq(sendmsg.text, 1, Len(chunk) + 1)) > MaxUrlencoded

\* C12: a text longer than the URL-encoding limit is sent as successive
\* messages.send calls, each carrying the longest allowed prefix of the text
\* not yet sent; the call for the next chunk is issued only after the call of
\* the previous chunk succeeded, and the chunks the server accepted, in send
\* order, followed by the text not yet sent, always make up the stripped text.
C12_ChunkedInOrder ==
    /\ []ChunkInFlight
    /\ [][sender = "new" => SentText' \o UnsentText' = SentText \o UnsentText]_vars

\* A text of three characters was sent whole in three calls, a CAPTCHA
\* challenge having been solved on the way.
C12_Witness ==
    /\ sender = "new"
    /\ sstate = "sent"
    /\ Cardinality(SucceededSends) = 3
    /\ Len(SentText) = 3
    /\ Len(SelectEv(trace, "request_captcha")) = 1

\* The upload calls made so far.
Uploads == SelectEv(trace, "upload_photo_for_im")

\* C13: the images of an outgoing message are uploaded by separate calls
\* issued one after another in the order in which the <img> tags appear in
\* the message, and the attachment list passed to messages.send names the
\* uploaded photos in that same order.
C13_UploadsInTagOrder ==
    LET ups == Uploads
        sends == SelectEv(trace, "messages.send")
        photos == [i \in 1..Len(images.img_ids) |-> PhotoName(1, images.img_ids[i])]
    IN  /\ \A i \in 1..Len(ups) : ups[i].a = images.img_ids[i]
        /\ \A i \in 1..Len(sends) :
              \E parsed \in AttachmentStrings : sends[i].x.attachment = parsed \o photos


\* The user objects of a result that on_update_user_info gets to see.
UserItems(result) ==
    { result.items[i] : i \in { j \in DOMAIN result.items : result.items[j].is_object } }

\* A user object of a user that cannot be written to.
NotWritable(v) == v.complete /\ (v.deactivated \/ v.can_write # 1)

\* The friends.get results received, in order.
FriendsAnswers == SelectSeq(answers, LAMBDA a : a.kind = "friends.get" /\ a.ok)

\* C14: for a user object that is deactivated or whose
\* can_write_private_message is not 1, on_update_user_info returns 0, the uid
\* is not in the set on_update_user_infos returns, and the uid is not in
\* friend_uids once the friends.get callback of update_buddies has run.
C14_NotWritableNotFriend ==
    /\ BuddyReady =>
       \A friends_get \in BOOLEAN :
         \A result \in (IF friends_get THEN FriendsResults ELSE UsersResults(Uids)) :
           \A v \in UserItems(result) :
             NotWritable(v) =>
               /\ on_update_user_info(user_infos, v).uid = 0
               /\ v.id \notin on_update_user_infos(user_infos, result, friends_get).buddy_uids
    /\ FriendsAnswers # <<>> =>
         \A v \in UserItems(FriendsAnswers[Len(FriendsAnswers)].result) :
           NotWritable(v) => v.id \notin friend_uids

C14_Witness ==
    /\ FriendsAnswers # <<>>
    /\ \E v \in UserItems(FriendsAnswers[Len(FriendsAnswers)].result) :
         NotWritable(v) /\ v.id = 1 /\ ~v.deactivated
    /\ 2 \in friend_uids
    /\ Len(SelectEv(trace, "update_buddy_list")) = 1
    /\ inflight = {}


\* The user objects the API has described users with, oldest first.
RECURSIVE DescribedFrom(_)
DescribedFrom(i) ==
    IF i > Len(answers) THEN <<>>
    ELSE LET a == answers[i]
             items == IF a.kind \in { "friends.get", "users.get" } /\ a.ok
                         /\ a.result.array /\ (a.kind = "friends.get" => a.result.object)
                      THEN SelectSeq(a.result.items, LAMBDA v : v.is_object /\ v.complete)
                      ELSE <<>>
         IN  items \o DescribedFrom(i + 1)

Described == DescribedFrom(1)

\* The users whose latest description was rejected by on_update_user_info.
Rejected ==
    { uid \in Uids :
        \E i \in DOMAIN Described :
            /\ Described[i].id = uid
            /\ NotWritable(Described[i])
            /\ \A j \in i + 1..Len(Described) : Described[j].id # uid }

\* C15: once update_buddy_list has run, no user that on_update_user_info
\* rejected (deactivated, or can_write_private_message not 1) is in the
\* host's buddy list, whatever only_friends_in_blist says.
C15_RejectedNotInBlist ==
    Len(SelectEv(trace, "update_buddy_list")) = 1 => Rejected \cap blist = {}


\* The uids of the calls of one kind on the host's buddy list among tr.
BlistCalls(tr, e) == { tr[i].a : i \in { j \in DOMAIN tr : tr[j].e = e } }

\* C16: a step in which update_buddy_list runs leaves in the host's buddy
\* list exactly the users of user_infos for which only_friends_in_blist is
\* off, or who are friends, or with whom a conversation is open; it has added
\* those that were missing and removed every other buddy.
C16_BuddyListReconciled ==
    [][Len(SelectEv(trace', "update_buddy_list")) > Len(SelectEv(trace, "update_buddy_list")) =>
          LET target == { u \in DOMAIN user_infos' :
                             ~friends_only' \/ u \in friend_uids' \/ u \in convs' }
              calls == SubSeq(trace', Len(trace) + 1, Len(trace'))
          IN  /\ blist' = target
              /\ BlistCalls(calls, "purple_blist_add_buddy") = target \ blist
              /\ BlistCalls(calls, "purple_blist_remove_buddy") = blist \ target]_vars

C16_Witness ==
    /\ Len(SelectEv(trace, "update_buddy_list")) = 1
    /\ friends_only
    /\ BlistCalls(trace, "purple_blist_add_buddy") = { 1 }
    /\ BlistCalls(trace, "purple_blist_remove_buddy") = { 2 }
    /\ blist = { 1 }
    /\ 2 \in DOMAIN user_infos


\* C17: user_infos holds an entry only for a uid that a friends.get or
\* users.get response returned user fields for.
C17_InfosOnlyFromApi ==
    DOMAIN user_infos \subseteq { Described[i].id : i \in DOMAIN Described }


\* C18: a MessageReceiver has at most one request in flight, a
\* messages.get / messages.getById call or a thumbnail download; the upload
\* sequence of an outgoing message has at most one upload in flight, and
\* nothing else beside it.
C18_OneRequestInFlight ==
    /\ rstate # "none" =>
          /\ Cardinality(inflight) <= 1
          /\ \A req \in inflight :
                req.kind \in { "messages.get", "messages.getById", "http_get" }
    /\ sender = "new" =>
          /\ Cardinality({ req \in inflight : req.kind = "upload" }) <= 1
          /\ (\E req \in inflight : req.kind = "upload") => Cardinality(inflight) = 1
          /\ sstate = "uploading" <=> (\E req \in inflight : req.kind = "upload")

C18_Witness ==
    /\ sender = "new"
    /\ Len(images.img_ids) = 2
    /\ Len(images.attachments) = 1
    /\ \E req \in inflight : req.kind = "upload" /\ req.b = 1


\* The positions of the trace at which the receiver was deleted.
Deletes == { i \in DOMAIN trace : trace[i].e = "delete" }

\* C19: the receiver is deleted at most once, as the last thing finish()
\* does; finish() runs at most once and with no request of the receiver in
\* flight; once the receiver is deleted no callback of it can run.
C19_DeletedOnceAtFinish ==
    /\ Cardinality(Deletes) <= 1
    /\ rstate = "deleted" <=> Deletes # {}
    /\ Len(SelectEv(trace, "received_cb")) <= 1
    /\ Len(SelectEv(trace, "messages.markAsRead")) <= 1
    /\ rstate = "deleted" =>
          /\ Deletes = { Len(trace) }
          /\ inflight = {}
          /\ ~ENABLED RecvNext
          /\ \A i \in DOMAIN trace :
                trace[i].e \in { "serv_got_im", "messages.markAsRead", "received_cb" } =>
                    \A j \in i..Len(trace) :
                        trace[j].e \in { "serv_got_im", "messages.markAsRead",
                                         "received_cb", "delete" }
    /\ rstate # "deleted" =>
          \A i \in DOMAIN trace :
              trace[i].e \in { "messages.get", "messages.getById", "http_get" }

C19_Witness ==
    /\ rstate = "deleted"
    /\ mode = "unread"
    /\ Len(SelectEv(trace, "messages.get")) >= 2
    /\ Len(SelectEv(trace, "http_get")) >= 2
    /\ failed # {}
    /\ trace[Len(trace)].e = "delete"


\* The positions of a text that hold a thumbnail's placeholder or the image
\* put in its place, in order.
RECURSIVE SlotsFrom(_, _)
SlotsFrom(text, i) ==
    IF i > Len(text) THEN <<>>
    ELSE (IF text[i].k \in { "ph", "img" } THEN <<i>> ELSE <<>>) \o SlotsFrom(text, i + 1)

Slots(text) == SlotsFrom(text, 1)

\* Attachment lists the renderer may be handed.
AttachmentLists ==
    SeqsUpTo({ PhotoAtt, VideoAtt, AudioAtt,
               Attachment("photo", TRUE, FALSE, FALSE, {}, FALSE),
               Attachment("link", TRUE, TRUE, FALSE, {}, FALSE) }, 3)

\* The placeholders of a message: one per queued thumbnail, the k-th of them
\* (from 0) carrying index k, directly after the link and line break of the
\* attachment whose thumbnail it stands for.
PlaceholdersNumbered(message) ==
    LET slots == Slots(message.text) IN
    /\ Len(slots) = Len(message.thumbnail_urls)
    /\ \A k \in DOMAIN slots :
          /\ message.text[slots[k]] = Placeholder(k - 1)
          /\ slots[k] > 2
          /\ message.text[slots[k] - 1] = Tok("br", 0)
          /\ message.text[slots[k] - 2].k =
                (IF message.thumbnail_urls[k] = 320 THEN "a_video"
                 ELSE IF message.text[slots[k] - 2].k = "a_text" THEN "a_text" ELSE "a_url")

\* The http_get of a thumbnail pending before a step.
PendingThumbnail == CHOOSE req \in inflight : req.kind = "http_get"

\* C20: the placeholders of one message carry pairwise distinct indices, the
\* one with index k being the k-th placeholder or image of the text, appended
\* with the k-th thumbnail URL; a successful download of thumbnail k of a
\* message puts the image in place of exactly that token and changes nothing
\* else.
C20_PlaceholderPerThumbnail ==
    /\ [](trace = <<>> =>
            \A atts \in AttachmentLists, body \in { <<>>, << Tok("body", 0) >> } :
                PlaceholdersNumbered(process_attachments(atts,
                                         ReceivedMessage(7, 1, body, 1, <<>>))))
    /\ [](\A i \in DOMAIN m_messages :
            LET text == m_messages[i].text
                slots == Slots(text)
            IN  /\ Len(slots) = Len(m_messages[i].thumbnail_urls)
                /\ \A k \in DOMAIN slots :
                      text[slots[k]].k = "ph" => text[slots[k]] = Placeholder(k - 1)
                /\ \A k, l \in DOMAIN slots :
                      (k # l /\ text[slots[k]].k = "ph" /\ text[slots[l]].k = "ph")
                          => text[slots[k]].n # text[slots[l]].n)
    /\ [][imgstore' # imgstore =>
            LET req == PendingThumbnail
                text == m_messages[req.a + 1].text
                slot == Slots(text)[req.b + 1]
                expected == [m_messages EXCEPT ![req.a + 1].text =
                                [text EXCEPT ![slot] = ImgTag(imgstore')]]
            IN  /\ text[slot] = Placeholder(req.b)
                /\ IF rstate' = "deleted" THEN m_messages' \in std_sort(expected)
                                          ELSE m_messages' = expected]_vars

C20_Witness ==
    /\ rstate = "running"
    /\ \E req \in inflight : req.kind = "http_get" /\ req.b = 1
    /\ \E i \in DOMAIN m_messages :
          LET text == m_messages[i].text
              slots == Slots(text)
          IN  /\ Len(slots) = 2
              /\ text[slots[1]].k = "img"
              /\ text[slots[2]] = Placeholder(1)


\* The attachments process_attachments gets to render: those before the
\* first one lacking "type" or the object named by it.
RECURSIVE RenderedAtts(_)
RenderedAtts(atts) ==
    IF atts = <<>> THEN <<>>
    ELSE IF Head(atts).type = "" \/ ~Head(atts).obj THEN <<>>
    ELSE << Head(atts) >> \o RenderedAtts(Tail(atts))

\* The attachments of the first message the server answered with, as far
\* as they are rendered.
AnsweredAtts ==
    IF pages = <<>> THEN <<>>
    ELSE IF pages[1] = <<>> THEN <<>>
    ELSE RenderedAtts(pages[1][1].atts)

\* The URL the claim names for a photo: the photo page (0) without
\* access_key, else the largest size present, photo_604 if none is.
LargestPhoto(v) ==
    IF ~v.key THEN 0
    ELSE CHOOSE size \in v.sizes \cup { 604 } : \A other \in v.sizes \cup { 604 } : other <= size

\* C21: the link of a well-formed photo attachment goes to the photo page
\* when the photo has no access_key, and with an access_key to the largest
\* of photo_2560, photo_1280 and photo_807 present, to photo_604 if none is.
C21_PhotoLink ==
    Len(m_messages) = 1 =>
        LET links == SelectSeq(m_messages[1].text, LAMBDA tok : tok.k \in { "a_text", "a_url" })
            photos == SelectSeq(AnsweredAtts, LAMBDA v : v.type = "photo" /\ v.ok)
        IN  /\ Len(links) = Len(photos)
            /\ \A i \in DOMAIN links :
                  /\ links[i].n = LargestPhoto(photos[i])
                  /\ links[i].k = (IF photos[i].txt THEN "a_text" ELSE "a_url")

C21_Witness ==
    /\ rstate = "deleted"
    /\ \E i \in DOMAIN trace :
          /\ trace[i].e = "serv_got_im"
          /\ \E j, k \in DOMAIN trace[i].x :
                /\ trace[i].x[j] = Tok("a_url", 1280)
                /\ trace[i].x[k] = Tok("a_url", 0)
    /\ \E v \in { AnsweredAtts[i] : i \in DOMAIN AnsweredAtts } :
          v.key /\ v.sizes = { 1280, 807 }


KnownTypes == { "photo", "video", "audio", "doc" }

\* The token an attachment is rendered as; "" when it is rendered as nothing.
RenderedAs(v) ==
    IF v.type \notin KnownTypes THEN "unknown"
    ELSE IF ~v.ok THEN ""
    ELSE IF v.type = "photo" THEN (IF v.txt THEN "a_text" ELSE "a_url")
    ELSE IF v.type = "video" THEN "a_video"
    ELSE IF v.type = "audio" THEN "a_audio"
    ELSE "a_doc"

\* The attachments of the first message the server answered with.
AllAtts ==
    IF pages = <<>> THEN <<>>
    ELSE IF pages[1] = <<>> THEN <<>>
    ELSE pages[1][1].atts

\* The attachments up to the first one that lacks "type" or is of a known
\* type and lacks the object named by it.
RECURSIVE UpToMalformedKnown(_)
UpToMalformedKnown(atts) ==
    IF atts = <<>> THEN <<>>
    ELSE IF Head(atts).type = "" \/ (Head(atts).type \in KnownTypes /\ ~Head(atts).obj) THEN <<>>
    ELSE << Head(atts) >> \o UpToMalformedKnown(Tail(atts))

\* The message text and thumbnails show the attachments atts, each rendered
\* as its type asks, those of unknown type as the marker, in order, with a
\* thumbnail for the photos and videos only; the message is delivered so.
ShowsAttachments(atts) ==
    LET shown == SelectSeq(atts, LAMBDA v : RenderedAs(v) # "")
        tokens == SelectSeq(m_messages[1].text,
                            LAMBDA tok : tok.k \in { "unknown", "a_text", "a_url",
                                                     "a_video", "a_audio", "a_doc" })
        thumbs == SelectSeq(shown, LAMBDA v : v.type \in { "photo", "video" })
    IN  /\ Len(tokens) = Len(shown)
        /\ \A i \in DOMAIN tokens : tokens[i].k = RenderedAs(shown[i])
        /\ Len(m_messages[1].thumbnail_urls) = Len(thumbs)
        /\ rstate = "deleted" =>
              \E i \in DOMAIN trace :
                  /\ trace[i].e = "serv_got_im"
                  /\ trace[i].x = m_messages[1].text

\* C22 as stated: any attachment of a type other than photo, video, audio
\* or doc is rendered as the unknown-type marker and the attachments after
\* it are rendered as usual; it queues no thumbnail and the message is
\* delivered.
C22_Original ==
    Len(m_messages) = 1 => ShowsAttachments(UpToMalformedKnown(AllAtts))

\* C22 amended: the same for an attachment of unknown type that carries the
\* object named by its type; one that lacks it ends the rendering of the
\* message's attachments like any other attachment lacking it.
C22_UnknownTypeMarked ==
    Len(m_messages) = 1 => ShowsAttachments(AnsweredAtts)

C22_Witness ==
    /\ rstate = "deleted"
    /\ Len(m_messages) = 1
    /\ AllAtts = << Attachment("link", TRUE, TRUE, FALSE, {}, FALSE), VideoAtt >>
    /\ \E i \in DOMAIN trace :
          /\ trace[i].e = "serv_got_im"
          /\ Len(trace[i].x) >= 4
          /\ trace[i].x[1] = Tok("unknown", 0)
          /\ trace[i].x[3] = Tok("a_video", 0)


\* A friends.get answer of unexpected shape: not an object, or items not an array.
MalformedFriends(a) ==
    a.kind = "friends.get" /\ a.ok /\ ~(a.result.object /\ a.result.array)

\* C23: when the friends.get result is not an object or its items are not an
\* array, friend_uids keeps its value, nothing more is requested, and the
\* buddy list is not reconciled: no buddy is removed.
C23_MalformedFriendsAborts ==
    /\ [][(Len(answers') > Len(answers) /\ MalformedFriends(answers'[Len(answers')])) =>
              /\ friend_uids' = friend_uids
              /\ inflight' = {}
              /\ trace' = trace]_vars
    /\ []((\E i \in DOMAIN answers : MalformedFriends(answers[i])) =>
              /\ SelectEv(trace, "update_buddy_list") = <<>>
              /\ SelectEv(trace, "purple_blist_remove_buddy") = <<>>)


\* The conversation ids add_new_conv_id returned and no later remove_conv_id
\* named, each with the chat id of the call that returned it last.
RECURSIVE OpenConvs(_)
OpenConvs(n) ==
    IF n = 0 THEN <<>>
    ELSE LET ev == trace[n]
             before == OpenConvs(n - 1)
         IN  IF ev.e = "add_new_conv_id"
             THEN (ev.a :> ev.b) @@ before
             ELSE IF ev.e = "remove_conv_id"
             THEN [c \in DOMAIN before \ { ev.a } |-> before[c]]
             ELSE before

\* C24: the registered conversation ids are pairwise distinct and non-zero;
\* add_new_conv_id returns an id no open conversation holds;
\* conv_id_to_chat_id gives a registered id the chat id it was added for;
\* both lookups give 0 for an id never added or removed since.
C24_ConvIdsUnique ==
    /\ [](LET open == OpenConvs(Len(trace)) IN
            /\ \A i, j \in DOMAIN chat_conv_ids :
                  i # j => chat_conv_ids[i][1] # chat_conv_ids[j][1]
            /\ 0 \notin ConvIds(chat_conv_ids)
            /\ ConvIds(chat_conv_ids) = DOMAIN open
            /\ \A conv_id \in 0..MaxChatOps + 1 :
                  conv_id_to_chat_id(chat_conv_ids, conv_id) =
                      (IF conv_id \in DOMAIN open THEN open[conv_id] ELSE 0)
            /\ \A chat_id \in ChatIds \cup { 0, 13 } :
                  LET conv_id == chat_id_to_conv_id(chat_conv_ids, chat_id) IN
                  IF \E c \in DOMAIN open : open[c] = chat_id
                  THEN conv_id \in DOMAIN open /\ open[conv_id] = chat_id
                  ELSE conv_id = 0)
    /\ [][(Len(trace') > Len(trace) /\ trace'[Len(trace')].e = "add_new_conv_id") =>
              /\ trace'[Len(trace')].a # 0
              /\ trace'[Len(trace')].a \notin ConvIds(chat_conv_ids)]_vars

C24_Witness ==
    /\ Len(chat_conv_ids) = 2
    /\ chat_conv_ids[1][1] = 2
    /\ chat_conv_ids[2][1] = 3
    /\ chat_conv_ids[1][2] = chat_conv_ids[2][2]
    /\ trace[3] = Ev("remove_conv_id", 1, 0, <<>>)


\* The call of remove_from_buddy_list_if_not_needed a run consists of.
RemoveCall == trace[1]

\* C25: remove_from_buddy_list_if_not_needed changes nothing when
\* only_friends_in_blist is off; when it is on it removes exactly the buddies
\* among uids that are no friends and for which convo_closed is set or no
\* conversation is open, and nothing else changes.
C25_RemoveOnlyUnneeded ==
    [][(trace = <<>> /\ trace' # <<>> /\ trace'[1].e = "remove_from_buddy_list_if_not_needed") =>
          LET uids == { trace'[1].x[i] : i \in DOMAIN trace'[1].x }
              convo_closed == trace'[1].a = 1
              unneeded == { uid \in uids :
                              uid \notin friend_uids /\ (convo_closed \/ uid \notin convs) }
              calls == SubSeq(trace', 2, Len(trace'))
          IN  /\ blist' = (IF friends_only THEN blist \ unneeded ELSE blist)
              /\ \A i \in DOMAIN calls : calls[i].e = "purple_blist_remove_buddy"
              /\ BlistCalls(calls, "purple_blist_remove_buddy") = blist \ blist'
              /\ friend_uids \cap (blist \ blist') = {}
              /\ (blist \ blist') \subseteq uids
              /\ UNCHANGED <<user_infos, friend_uids, friends_only, convs, inflight>>]_vars

C25_Witness ==
    /\ trace # <<>>
    /\ RemoveCall = Ev("remove_from_buddy_list_if_not_needed", 1, 0, << 1, 2 >>)
    /\ friends_only
    /\ 1 \in friend_uids /\ 1 \in blist
    /\ 2 \in convs
    /\ BlistCalls(trace, "purple_blist_remove_buddy") = { 2 }


\* The answers to messages.getDialogs received.
DialogsAnswers == SelectSeq(answers, LAMBDA a : a.kind = "messages.getDialogs")

\* C26: in update_buddies no users.get is issued before the dialog partners
\* are known, none at all when only_friends_in_blist is on, and when it is
\* off one users.get for exactly the dialog partners that are not in the
\* friend set just fetched (none if there is no such partner).
C26_UsersGetForNonFriends ==
    (trace # <<>> /\ trace[1].e = "friends.get") =>
        LET users_gets == SelectEv(trace, "users.get")
            partners == IF DialogsAnswers = <<>> THEN {}
                        ELSE DialogsAnswers[1].result \ friend_uids
        IN  IF friends_only \/ partners = {}
            THEN users_gets = <<>>
            ELSE /\ Len(users_gets) = 1
                 /\ { users_gets[1].x[i] : i \in DOMAIN users_gets[1].x } = partners
                 /\ Len(users_gets[1].x) = Cardinality(partners)

C26_Witness ==
    /\ trace # <<>> /\ trace[1].e = "friends.get"
    /\ ~friends_only
    /\ friend_uids = { 1 }
    /\ DialogsAnswers # <<>> /\ DialogsAnswers[1].result = { 2 }
    /\ SelectEv(trace, "users.get") = << Ev("users.get", 0, 0, << 2 >>) >>
    /\ SelectEv(trace, "update_buddy_list") # <<>>


\* The requests add_to_buddy_list is waiting for.
AddToBuddyListPending == { req \in inflight : req.then = "update_buddy_list_for" }

\* C27: add_to_buddy_list asks users.get about the unknown uids only; when
\* it completes every uid given is in the buddy list, whatever
\* only_friends_in_blist says, and no other buddy was added or removed.
C27_AddToBuddyList ==
    /\ [](\A req \in AddToBuddyListPending :
            /\ req.kind = "users.get"
            /\ req.uids # <<>>
            /\ req.uids = SelectSeq(req.for, LAMBDA uid : uid \notin DOMAIN user_infos)
            /\ SelectEv(trace, "users.get") = << Ev("users.get", 0, 0, req.uids) >>)
    /\ [][(SelectEv(trace', "update_buddy_list_for") # <<>>
              /\ SelectEv(trace, "update_buddy_list_for") = <<>>) =>
            LET call == SelectEv(trace', "update_buddy_list_for")[1]
                uids == { call.x[i] : i \in DOMAIN call.x }
                calls == SubSeq(trace', Len(trace) + 1, Len(trace'))
            IN  /\ blist' = blist \cup uids
                /\ BlistCalls(calls, "purple_blist_add_buddy") = uids \ blist
                /\ BlistCalls(calls, "purple_blist_remove_buddy") = {}
                /\ (trace = <<>> => uids \subseteq DOMAIN user_infos)
                /\ inflight' = {}]_vars

C27_Witness ==
    /\ SelectEv(trace, "update_buddy_list_for") = << Ev("update_buddy_list_for", 0, 0, << 1, 2 >>) >>
    /\ SelectEv(trace, "users.get") = << Ev("users.get", 0, 0, << 2 >>) >>
    /\ friends_only
    /\ friend_uids = {}
    /\ blist = { 1, 2 }
    /\ BlistCalls(trace, "purple_blist_add_buddy") = { 2 }


\* The uids the alias calls among tr were made for, with the names passed.
AliasCalls(tr, e) == { <<tr[i].a, tr[i].x>> : i \in { j \in DOMAIN tr : tr[j].e = e } }

\* C28: a step that updates buddies (update_buddy_list or
\* update_buddy_list_for) sets neither alias of a buddy whose node has
\* custom-alias set, and the buddy keeps the flag; for every other buddy it
\* updates it sets the server alias and the private alias to the name in
\* user_infos; it sets no alias of a buddy it does not update.
C28_CustomAliasKept ==
    [][(Len(SelectEv(trace', "update_buddy_list")) + Len(SelectEv(trace', "update_buddy_list_for"))
          > Len(SelectEv(trace, "update_buddy_list")) + Len(SelectEv(trace, "update_buddy_list_for"))) =>
          LET calls == SubSeq(trace', Len(trace) + 1, Len(trace'))
              fors == SelectEv(calls, "update_buddy_list_for")
              updated == IF fors # <<>>
                         THEN { fors[1].x[i] : i \in DOMAIN fors[1].x }
                         ELSE { u \in DOMAIN user_infos' :
                                  ~friends_only \/ u \in friend_uids' \/ u \in convs }
              flagged == custom_alias \cap blist
              named == { <<u, user_infos'[u].name>> : u \in updated \ flagged }
          IN  /\ AliasCalls(calls, "serv_got_alias") = named
              /\ AliasCalls(calls, "purple_serv_got_private_alias") = named
              /\ \A u \in updated \cap flagged : u \in custom_alias' /\ u \in blist']_vars

C28_Witness ==
    /\ SelectEv(trace, "update_buddy_list") # <<>>
    /\ custom_alias = { 1 }
    /\ blist = { 1, 2 }
    /\ AliasCalls(trace, "serv_got_alias") = { << 2, FullName(2) >> }
    /\ AliasCalls(trace, "purple_serv_got_private_alias") = { << 2, FullName(2) >> }
    /\ BlistCalls(trace, "purple_blist_add_buddy") = {}

\* C29: every SendMessage built by send_im_message, send_chat_message or
\* send_im_attachment called with a non-zero id has exactly one of user_id and
\* chat_id non-zero, and every messages.send request carries exactly one of
\* the user_id and chat_id parameters.
C29_OneRecipient ==
    sender = "new" =>
        /\ (sendmsg.user_id # 0) # (sendmsg.chat_id # 0)
        /\ \A i \in 1..Len(trace) :
              trace[i].e = "messages.send" =>
                  (trace[i].x.user_id # 0) # (trace[i].x.chat_id # 0)

\* A chat message went out with the chat_id parameter and no user_id.
C29_Witness ==
    /\ sender = "new"
    /\ sendmsg.chat_id # 0
    /\ \E i \in 1..Len(trace) :
          /\ trace[i].e = "messages.send"
          /\ trace[i].x.chat_id = sendmsg.chat_id
          /\ trace[i].x.user_id = 0

\* The calls of success_cb and error_cb made so far, in order.
CallbackCalls == SelectSeq(trace, LAMBDA ev : ev.e \in {"success_cb", "error_cb"})

\* The send is over: nothing is in flight and no challenge is pending.
SendOver == sstate \in {"sent", "error"}

\* C30: for every send_message call whose uploads, API calls and CAPTCHA
\* challenges each complete with one of their callbacks, exactly one of
\* success_cb and error_cb is invoked, exactly once: no callback before the
\* send is over, one when it is over, and nothing after it; success_cb only
\* after the messages.send call for the last chunk succeeded; error_cb on an
\* upload failure, a terminal API error and a cancelled CAPTCHA.  (A callback
\* that is not set is not invoked.)
C30_OneCallbackOnce ==
    /\ [](sendmsg.success_cb /\ sendmsg.error_cb =>
            /\ Len(CallbackCalls) = (IF SendOver THEN 1 ELSE 0)
            /\ SendOver =>
                  /\ trace[Len(trace)].e \in {"success_cb", "error_cb"}
                  /\ inflight = {}
                  /\ captcha = {}
                  /\ ~ENABLED SendMessageNext
            /\ (\E i \in DOMAIN trace : trace[i].e = "success_cb") =>
                  /\ "is_double" \in DOMAIN lastReply
                  /\ lastReply.is_double
                  /\ trace[Len(trace) - 1].e = "messages.send"
                  /\ trace[Len(trace) - 1].x.message = sendmsg.text
            /\ (lastReply \in OtherErrors
                    \/ ("ok" \in DOMAIN lastReply /\ ~lastReply.ok)) =>
                  trace[Len(trace)].e = "error_cb")
    /\ []((~sendmsg.success_cb /\ ~sendmsg.error_cb) => CallbackCalls = <<>>)
    /\ [][(sendmsg.error_cb /\ (UploadError \/ CaptchaCancelled)) =>
              /\ CallbackCalls' = << Ev("error_cb", 0, 0, <<>>) >>
              /\ CallbackCalls = <<>>]_vars

\* A message with an image and callbacks went out in full: success_cb was
\* called after the upload and the messages.send call succeeded.
C30_Witness ==
    /\ sendmsg.success_cb
    /\ images.img_ids # <<>>
    /\ sstate = "sent"
    /\ CallbackCalls = << Ev("success_cb", 0, 0, <<>>) >>

\* No page names a message id twice: the server's list holds each message once.
PagesWithoutRepeats ==
    \A p \in 1..Len(pages) :
        \A i, j \in 1..Len(pages[p]) : i # j => pages[p][i].mid # pages[p][j].mid

\* C31: within one unread-mode run no message id is delivered to the host
\* more than once, also when a message arriving between two page requests
\* shifts the newest-first list so that a later page names a message of an
\* earlier page again.
C31_NoDuplicateDelivery ==
    (mode = "unread" /\ PagesWithoutRepeats) =>
        LET d == Delivered IN
        \A i, j \in 1..Len(d) : i # j => d[i].a # d[j].a

\* C32: when a message with attachments is sent as several chunks, the
\* attachment list goes out with exactly one of the messages.send calls the
\* server accepts, so that the recipient receives each attachment once.
C32_AttachmentsSentOnce ==
    (sender = "new" /\ sendmsg.attachments # <<>>) =>
        LET ok == SucceededSends
            with == { i \in ok : trace[i].x.attachment # <<>> }
        IN  /\ Cardinality(with) <= 1
            /\ ok # {} => Cardinality(with) = 1

\* The positions of the received_cb calls in the trace.
ReceivedCbCalls == { i \in DOMAIN trace : trace[i].e = "received_cb" }

\* C33: every MessageReceiver run invokes received_cb (when it is set) exactly
\* once, inside finish(): not before the run is over, after every delivery
\* and after the mark-read request when one was issued, with only the
\* deletion of the receiver after it; this on every path, an empty first
\* page, a malformed response, an API error and thumbnail failures included.
C33_ReceivedCbOnce ==
    LET cbs == ReceivedCbCalls IN
    /\ Cardinality(cbs) = (IF m_received_cb /\ rstate = "deleted" THEN 1 ELSE 0)
    /\ \A i \in cbs :
          /\ i = Len(trace) - 1
          /\ trace[Len(trace)].e = "delete"
          /\ inflight = {}

\* A run whose thumbnail download failed has delivered, marked as read and
\* called received_cb.
C33_Witness ==
    /\ rstate = "deleted"
    /\ m_received_cb
    /\ \E req \in failed : req.kind = "http_get"
    /\ Delivered # <<>>
    /\ MarkReads # <<>>
    /\ ReceivedCbCalls # {}

----------------------------------------------------------------------------
(* A receiver run whose requests all complete *)

\* The server has sent at most MaxFairItems items in accepted pages.
FewItems == Len(Flatten(pages)) <= MaxFairItems

\* The steps of a receiver whose server answers with an empty item list at
\* the latest when it has sent MaxFairItems items.
FairNext ==
    \/ RunUnread
    \/ Run
    \/ LegacyRun
    \/ (GetSuccess /\ FewItems')
    \/ GetError
    \/ (GetByIdSuccess /\ FewItems')
    \/ GetByIdError
    \/ ThumbnailSuccess
    \/ ThumbnailFailure
    \/ (LegacyGetSuccess /\ FewItems')
    \/ LegacyGetError

\* One run of a MessageReceiver all of whose requests complete: a callback
\* that can run does run.
FairSpec == Init /\ [][FairNext]_vars /\ WF_vars(FairNext)

----------------------------------------------------------------------------
(* Claims about termination *)

\* The messages.get requests that completed with an error.
FailedGets == { req \in failed : req.kind = "messages.get" }

\* The number of messages.get responses that lacked "count" or "items": the
\* requests issued that are neither in flight, nor failed, nor answered by
\* an accepted page.
MalformedGets ==
    Len(SelectEv(trace, "messages.get"))
        - Cardinality({ req \in inflight : req.kind = "messages.get" })
        - Cardinality(FailedGets) - Len(pages)

\* No accepted page was empty so far.
NoEmptyPage == \A p \in 1..Len(pages) : pages[p] # <<>>

\* The second half of C34 as stated: in unread mode, without an empty page
\* or an error the receiver keeps paginating and never delivers.  Looked at
\* right after a page callback ran; a response whose item list is empty counts
\* as an empty page whether or not it has a count.
C34_Original ==
    (AfterUnreadPage /\ NoEmptyPage /\ FailedGets = {}
        /\ ~(lastResp.hasItems /\ lastResp.items = <<>>)) =>
        (GetInFlight /\ Delivered = <<>>)

\* C34 amended: when every issued request completes and the server at last
\* answers messages.get with an empty item list, every run that was started
\* reaches finish(); in unread mode, without an empty page, a response lacking
\* "count" or "items", or an error the receiver keeps paginating and never
\* delivers.
C34_EventuallyFinishes ==
    /\ (rstate = "running" ~> rstate = "deleted")
    /\ []((mode = "unread" /\ NoEmptyPage /\ FailedGets = {} /\ MalformedGets = 0) =>
            (rstate = "running" /\ GetInFlight /\ Delivered = <<>>))

\* An unread-mode run finished after two pages with items and an empty one,
\* without any error, and delivered.
C34_Witness ==
    /\ mode = "unread"
    /\ rstate = "deleted"
    /\ failed = {}
    /\ MalformedGets = 0
    /\ Len(pages) = 3
    /\ pages[3] = <<>>
    /\ Delivered # <<>>

\* The offsets of the messages.get requests issued so far, in order.
GetOffsets == LET g == SelectEv(trace, "messages.get") IN [k \in 1..Len(g) |-> g[k].a]

\* C35: in unread mode the first messages.get request uses offset 0 and each
\* following request uses the previous offset plus the number of items of the
\* previous page, the items skipped as malformed included; the offsets are
\* strictly increasing.
C35_OffsetsAccumulate ==
    mode = "unread" =>
        LET offs == GetOffsets IN
        /\ Len(offs) >= 1
        /\ offs[1] = 0
        /\ \A k \in 1..Len(offs) - 1 :
              /\ k <= Len(pages)
              /\ offs[k + 1] = offs[k] + Len(pages[k])
              /\ offs[k + 1] > offs[k]

\* A second request at offset 2 followed a page of one malformed and one
\* well-formed item, of which one message was collected.
C35_Witness ==
    /\ mode = "unread"
    /\ GetOffsets = <<0, 2>>
    /\ Len(pages) = 1
    /\ \E i \in 1..2 : ~pages[1][i].ok
    /\ Len(m_messages) = 1

\* An upload completes with an error or with a result of unexpected shape.
UploadFails ==
    \/ UploadError
    \/ (UploadSuccess /\ ~lastReply'.ok)

\* C36: when an image upload of an outgoing message fails or returns a result
\* of unexpected shape, no further upload is started and no messages.send
\* call is issued for the message, then or later, and error_cb (when set) is
\* invoked once; the images already uploaded are not sent.
C36_UploadFailureTerminal ==
    /\ [][UploadFails =>
            /\ sstate' = "error"
            /\ inflight' = {}
            /\ SelectEv(trace', "upload_photo_for_im") = SelectEv(trace, "upload_photo_for_im")
            /\ SelectEv(trace', "messages.send") = <<>>
            /\ Len(SelectEv(trace, "error_cb")) = 0
            /\ Len(SelectEv(trace', "error_cb")) = (IF sendmsg.error_cb THEN 1 ELSE 0)
            /\ Len(SelectEv(trace', "success_cb")) = 0]_vars
    /\ [](sstate = "error" => (inflight = {} /\ captcha = {} /\ ~ENABLED SendMessageNext))

\* The second upload of a message failed after the first had succeeded:
\* error_cb was called and the uploaded photo was not sent.
C36_Witness ==
    /\ sstate = "error"
    /\ Len(SelectEv(trace, "upload_photo_for_im")) = 2
    /\ Len(images.attachments) = 1
    /\ SelectEv(trace, "messages.send") = <<>>
    /\ Len(SelectEv(trace, "error_cb")) = 1

\* C37: a MessageReceiver run that collected no message (empty first page,
\* malformed first response, error on the first request) issues no
\* messages.markAsRead request and makes no delivery, but still invokes
\* received_cb (when it is set), once.
C37_EmptyRunQuiet ==
    (NewReceiver /\ rstate = "deleted" /\ m_messages = <<>>) =>
        /\ MarkReads = <<>>
        /\ Delivered = <<>>
        /\ Cardinality(ReceivedCbCalls) = (IF m_received_cb THEN 1 ELSE 0)

\* The first request of an unread-mode run failed: the run is over, nothing
\* was delivered or marked as read, and received_cb was called.
C37_Witness ==
    /\ mode = "unread"
    /\ rstate = "deleted"
    /\ m_messages = <<>>
    /\ failed = { Req("messages.get", 0, 0) }
    /\ m_received_cb
    /\ trace[Len(trace) - 1].e = "received_cb"
    /\ MarkReads = <<>>

\* update_buddies is the operation that runs.
UpdateBuddiesRuns == trace # <<>> /\ trace[1].e = "friends.get"

\* The last request of update_buddies completes, and it is not friends.get or
\* users.get failing.
UpdateBuddiesCompletes ==
    /\ \E req \in inflight : req.then = "update_buddy_list"
    /\ inflight' = {}
    /\ ~(FriendsGetError \/ UsersGetError)

\* C38: when friends.get succeeds and users.get, if issued, succeeds,
\* update_buddies runs update_buddy_list and then invokes on_update_cb (when
\* set) exactly once, also when messages.getDialogs fails, in which case no
\* users.get call is made (the dialog partners are taken as none);
\* on_update_cb is never invoked before update_buddy_list ran.
C38_UpdateThenCallback ==
    /\ [](UpdateBuddiesRuns =>
            LET cbs == { i \in DOMAIN trace : trace[i].e = "on_update_cb" }
                ubl == { i \in DOMAIN trace : trace[i].e = "update_buddy_list" }
            IN  /\ Cardinality(cbs) <= 1
                /\ Cardinality(ubl) <= 1
                /\ \A i \in cbs :
                      /\ i = Len(trace)
                      /\ inflight = {}
                      /\ \E j \in ubl : j < i)
    /\ [][UpdateBuddiesCompletes =>
            /\ Len(SelectEv(trace, "update_buddy_list")) = 0
            /\ Len(SelectEv(trace', "update_buddy_list")) = 1
            /\ Len(SelectEv(trace', "on_update_cb"))
                  = (IF \E req \in inflight : req.cb THEN 1 ELSE 0)]_vars
    /\ [][DialogsError =>
            /\ UpdateBuddiesCompletes
            /\ SelectEv(trace', "users.get") = <<>>]_vars

\* messages.getDialogs failed: update_buddy_list ran all the same and
\* on_update_cb was called after it.
C38_Witness ==
    /\ UpdateBuddiesRuns
    /\ answers # <<>>
    /\ answers[Len(answers)].kind = "messages.getDialogs"
    /\ ~answers[Len(answers)].ok
    /\ Len(SelectEv(trace, "update_buddy_list")) = 1
    /\ trace[Len(trace)].e = "on_update_cb"

====
